---- MODULE Spec2Model ----
(***************************************************************************)
(* Model of the fraud-detection engine: the graph store behind the Neo4j   *)
(* repositories (accounts, transactions, fraud rings, ring links), the     *)
(* domain services (risk scoring, pattern detection, ring analysis) and    *)
(* the investigation facade's sweep.                                       *)
(*                                                                         *)
(* Time is counted in minutes.  Scores are floats in the code; the model   *)
(* keeps them exact as integers scaled by a fixed factor (see Scale).      *)
(***************************************************************************)
EXTENDS Integers, Sequences, FiniteSets, Bags, TLC

VARIABLES
    args,       \* what a caller of calculate_customer_risk passes: the
                \* customer and the list of the customer's accounts
    sweep,      \* the detect_fraud_patterns calls under way: for each
                \* caller, where it stands and its local variables
    latest,     \* for each account, the score of the most recent
                \* calculate_account_risk a sweep made for it
    infra,      \* USED_DEVICE relationships, <<customer_id, device_id>>, and
                \* FROM_IP relationships, <<transaction_id, ip_address>>
    now,        \* the wall clock read by datetime.now(timezone.utc), minutes
    accounts,   \* Account nodes: a function account_id -> record
    txns,       \* Transaction nodes with their DEBITED_FROM / CREDITED_TO
                \* relationships: a set of records
    rings,      \* FraudRing nodes: a function ring_id -> record
    links,      \* USED_IN relationships: set of <<ring_id, account_id, role>>
    members,    \* MEMBER_OF relationships: set of <<ring_id, customer_id, role>>
    customers,  \* Customer nodes with their OWNS relationships: a function
                \* customer_id -> record
    alerts,     \* Alert nodes: a set of records
    conn,       \* the Neo4jConnection class: its instance and its drivers
    ret         \* the last call: its name, what it was given and found, and
                \* the value it returned

vars == <<args, customers, alerts, conn, members, sweep, latest, infra, now, accounts, txns, rings, links, ret>>

(***************************************************************************)
(* Bounds                                                                  *)
(***************************************************************************)
MaxRings == 2          \* ring ids uuid4() can hand out
MaxNotes == 1          \* notes appended to one ring's description
MaxTxns == 4           \* transactions saved one by one
StartTime == 200000    \* the clock's reading when a scoring run starts
MaxHourTxns == 16      \* transactions of one account within the last hour
MaxFlagged == 6        \* flagged transactions of one account within 7 days
MaxHighValue == 6      \* high-value transactions of one account within 7 days
MaxOwned == 11         \* accounts in the list given to calculate_customer_risk
MaxSaves == 2          \* transactions saved around the sweeps
MaxSweeps == 1         \* detect_fraud_patterns calls made by one caller
MaxFan == 13           \* counterparties of one account in the fan-out runs
MaxLegs == 2           \* inbound, and outbound, transfers of the mule runs
MaxSharers == 3        \* customers that can use one device
MaxTicks == 2          \* minutes the clock advances in the scoring runs
MaxDrivers == 3        \* drivers GraphDatabase.driver creates in one run
MaxSessions == 3       \* sessions handed out in one run

(***************************************************************************)
(* Domain values (src/src/domain/entities.py)                              *)
(***************************************************************************)
\* Python's None, as a record so that it compares with entity records
None == [none |-> TRUE]
NoInfra == [used_device |-> {}, from_ip |-> {}]
NoCustomers == <<>>

\* the connection once the repositories are built: the one instance, its
\* driver 1 open
Connected ==
    [instance |-> 1, instances |-> 1, driver |-> 1, open |-> {1},
     closed |-> {}, sessions |-> {}]

AccountIds == {"a1", "a2", "a3", "a4"}
NoAccountId == "-"     \* from_account_id / to_account_id of None
RingIds == 1..MaxRings

\* entities.py FraudRingStatus
FraudRingStatus == {"investigating", "confirmed", "false_positive", "resolved"}

\* entities.py KYCStatus
KYCStatus == {"verified", "pending", "failed"}

\* entities.py AccountStatus
AccountStatus == {"active", "suspended", "closed"}

NotesTexts == {"", "checked"}      \* the notes argument

\* the (pattern, related_entities) pairs given to
\* create_fraud_ring_from_pattern: pattern_type, confidence in tenths, ids
\* (an account's and a customer's)
RingPatterns ==
    {<<"circular_flow", 8, <<>>>>, <<"fan_out", 5, <<"a1", "c1">>>>}

(***************************************************************************)
(* Fraud ring repository (Neo4jFraudRingRepository)                        *)
(***************************************************************************)
\* a datetime: the instant in minutes and whether it carries a time zone
\* datetime.utcnow(): the clock's reading, without a time zone
utcnow == [instant |-> now, tzinfo |-> "naive"]

\* datetime.isoformat(): the instant as text, with "+00:00" if it has a zone
isoformat(d) ==
    [text |-> d.instant, offset |-> IF d.tzinfo = "naive" THEN "" ELSE "+00:00"]

\* Cypher datetime($text): a text without an offset is read as UTC
cypher_datetime(iso) == [instant |-> iso.text, tzinfo |-> "UTC"]

\* FraudRing(...) as built by create_fraud_ring_from_pattern: the entity's
\* defaults for detected_date, status and total_amount.  The description
\* is kept as the list of the pieces it is concatenated from.
FraudRing(id, conf, ptype, n) ==
    [ring_id |-> id, detected_date |-> utcnow, confidence_score |-> conf,
     status |-> "investigating",
     total_amount |-> 0, member_count |-> n, pattern_type |-> ptype,
     description |-> <<ptype>>]

\* find_by_id: the node with that ring_id, or None
FraudRing_find_by_id_missing_creates(store, ring_id) ==
    IF ring_id \in DOMAIN store
    THEN store[ring_id]
    ELSE FraudRing(ring_id, 0, "", 0)

FraudRing_find_by_id(store, ring_id) ==
    IF ring_id \in DOMAIN store
    THEN store[ring_id]
    ELSE None

\* save: MERGE on ring_id, SET every property
FraudRing_save_every_ring(store, ring) ==
    [id \in DOMAIN store \cup {ring.ring_id} |->
        IF id = ring.ring_id
        THEN [ring EXCEPT !.detected_date = cypher_datetime(isoformat(@))]
        ELSE [store[id] EXCEPT !.status = ring.status]]

FraudRing_save(store, ring) ==
    [id \in DOMAIN store \cup {ring.ring_id} |->
        IF id = ring.ring_id
        THEN [ring EXCEPT !.detected_date = cypher_datetime(isoformat(@))]
        ELSE store[id]]

\* link_account_to_ring: MATCH the account and the ring, MERGE the
\* relationship, SET its role; nothing happens when either is missing
link_account_to_ring(lk, accts, store, ring_id, account_id, role) ==
    IF account_id \in DOMAIN accts /\ ring_id \in DOMAIN store
    THEN {l \in lk : ~(l[1] = ring_id /\ l[2] = account_id)}
             \cup {<<ring_id, account_id, role>>}
    ELSE lk

\* the Customer nodes of the ring runs
RingCustomers == {"c1", "c2"}

\* link_customer_to_ring: MATCH the customer and the ring, MERGE the
\* relationship, SET its role; nothing happens when either is missing
link_customer_to_ring(mb, store, ring_id, customer_id, role) ==
    IF customer_id \in RingCustomers /\ ring_id \in DOMAIN store
    THEN {m \in mb : ~(m[1] = ring_id /\ m[2] = customer_id)}
             \cup {<<ring_id, customer_id, role>>}
    ELSE mb

\* ... WITH r MATCH (r)<-[:MEMBER_OF]-(member:Customer)
\*     SET r.member_count = count(DISTINCT member)
recount_members(store, mb, ring_id) ==
    IF ring_id \in DOMAIN store
          /\ \E m \in mb : m[1] = ring_id
    THEN [store EXCEPT ![ring_id].member_count =
             Cardinality({m[2] : m \in {x \in mb : x[1] = ring_id}})]
    ELSE store

(***************************************************************************)
(* FraudRingAnalysisService (src/src/domain/services.py)                   *)
(***************************************************************************)
RECURSIVE link_all(_, _, _, _, _)
link_all(lk, accts, store, ring_id, entities) ==
    IF entities = <<>> THEN lk
    ELSE link_all(link_account_to_ring(lk, accts, store, ring_id,
                                       Head(entities), "participant"),
                  accts, store, ring_id, Tail(entities))

\* the ring update_ring_status saves: ring.status = status, and the
\* description grows by "\n<now>: <notes>" when notes is not empty
update_ring_fields_guarded(ring, status, notes, t) ==
    [ring EXCEPT
        !.status = IF ring.status = "resolved" THEN ring.status ELSE status,
        !.description = IF notes # "" THEN Append(@, <<t, notes>>) ELSE @]

update_ring_fields(ring, status, notes, t) ==
    [ring EXCEPT
        !.status = status,
        !.description = IF notes # "" THEN Append(@, <<t, notes>>) ELSE @]

create_fraud_ring_from_pattern(ptype, conf, entities) ==
    /\ Cardinality(DOMAIN rings) < MaxRings
    /\ LET id == Cardinality(DOMAIN rings) + 1    \* uuid4(): a fresh id
           ring == FraudRing(id, conf, ptype, Len(entities))
           saved == FraudRing_save(rings, ring)
       IN /\ rings' = saved
          /\ links' = link_all(links, accounts, saved, id, entities)
          /\ ret' = [op |-> "create_fraud_ring_from_pattern",
                     ring_id |-> id, status |-> "", prev |-> "",
                     pattern |-> [pattern_type |-> ptype, confidence |-> conf],
                     entities |-> entities, result |-> ring]
    /\ UNCHANGED <<args, customers, alerts, conn, members, sweep, latest, infra, now, accounts, txns>>

update_ring_status(ring_id, status, notes) ==
    LET ring == FraudRing_find_by_id(rings, ring_id)
    IN /\ ring # None => Len(ring.description) <= MaxNotes
       /\ IF ring # None
          THEN LET new == update_ring_fields(ring, status, notes, now)
               IN /\ rings' = FraudRing_save(rings, new)
                  /\ ret' = [op |-> "update_ring_status", ring_id |-> ring_id,
                             status |-> status, prev |-> ring.status,
                             notes |-> notes, result |-> new]
          ELSE /\ rings' = rings
               /\ ret' = [op |-> "update_ring_status", ring_id |-> ring_id,
                          status |-> "", prev |-> "", notes |-> notes,
                          result |-> None]
       /\ UNCHANGED <<args, customers, alerts, conn, members, sweep, latest, infra, now, accounts, txns, links>>

CreateRing ==
    \E p \in RingPatterns : create_fraud_ring_from_pattern(p[1], p[2], p[3])

UpdateRingStatus ==
    \E ring_id \in RingIds \cup {0}, status \in FraudRingStatus,
       notes \in NotesTexts :
        update_ring_status(ring_id, status, notes)

InitRing ==
    /\ args = <<>>
    /\ sweep = <<>>
    /\ latest = <<>>
    /\ customers = NoCustomers
    /\ alerts = {}
    /\ conn = Connected
    /\ members = {}
    /\ infra = NoInfra
    /\ now = 0
    /\ accounts = [a \in {"a1", "a2"} |->
                      [status |-> "active", created_date |-> 0,
                       risk_score |-> 0]]
    /\ txns = {}
    /\ rings = <<>>
    /\ links = {}
    /\ ret = [op |-> "init", ring_id |-> 0, status |-> "", prev |-> "",
              result |-> None]

NextRing == CreateRing \/ UpdateRingStatus

\* Neo4jFraudRingRepository.link_customer_to_ring, one statement: either the
\* server refuses it for the aggregate inside SET and nothing is written, or
\* it links the customer and recounts the ring's members
LinkCustomerToRing ==
    \E ring_id \in {0, 1}, customer_id \in RingCustomers \cup {"a1"},
       role \in {"member"} :
        /\ \/ /\ members' = members
              /\ rings' = rings
              /\ ret' = [op |-> "link_customer_to_ring", ring_id |-> ring_id,
                         status |-> "", prev |-> "", result |-> "error"]
           \/ LET mb == link_customer_to_ring(members, rings, ring_id,
                                              customer_id, role)
              IN /\ members' = mb
                 /\ rings' = IF customer_id \in RingCustomers
                             THEN recount_members(rings, mb, ring_id)
                             ELSE rings
                 /\ ret' = [op |-> "link_customer_to_ring",
                            ring_id |-> ring_id, status |-> "", prev |-> "",
                            result |-> None]
        /\ UNCHANGED <<args, customers, alerts, conn, sweep, latest, infra, now, accounts, txns, links>>

\* Neo4jFraudRingRepository.link_account_to_ring
LinkAccountToRing ==
    \E ring_id \in {0, 1}, account_id \in {"a2", "c1"},
       role \in {"participant"} :
        /\ links' = link_account_to_ring(links, accounts, rings, ring_id,
                                         account_id, role)
        /\ ret' = [op |-> "link_account_to_ring", ring_id |-> ring_id,
                   status |-> "", prev |-> "", result |-> None]
        /\ UNCHANGED <<args, customers, alerts, conn, members, sweep, latest, infra, now, accounts,
                       txns, rings>>

NextRingLinks ==
    \/ CreateRing
    \/ UpdateRingStatus
    \/ LinkCustomerToRing
    \/ LinkAccountToRing

SpecRingLinks == InitRing /\ [][NextRingLinks]_vars

SpecRing == InitRing /\ [][NextRing]_vars

(***************************************************************************)
(* Ring lifecycle properties                                               *)
(***************************************************************************)
\* the transitions of INVESTIGATING -> {CONFIRMED, FALSE_POSITIVE} -> RESOLVED
LifecycleTransitions ==
    {<<"investigating", "confirmed">>, <<"investigating", "false_positive">>,
     <<"confirmed", "resolved">>, <<"false_positive", "resolved">>}

\* C1 (as stated): a stored ring's status only ever moves along the
\* lifecycle's transitions, so a RESOLVED ring never changes status again.
C1_StatusOnlyMovesAlongLifecycle ==
    [][\A id \in DOMAIN rings :
          \/ rings'[id].status = rings[id].status
          \/ <<rings[id].status, rings'[id].status>> \in LifecycleTransitions]_vars

\* C1 (amended): update_ring_status on an existing ring stores the status it
\* is given, whatever the ring's previous status; every stored status is one
\* of the four FraudRingStatus values.
C1_StatusIsTheOneGiven ==
    /\ \A id \in DOMAIN rings : rings[id].status \in FraudRingStatus
    /\ (ret.op = "update_ring_status" /\ ret.ring_id \in DOMAIN rings)
          => rings[ret.ring_id].status = ret.status

\* a RESOLVED ring was sent back to INVESTIGATING
C1_Witness ==
    /\ ret.op = "update_ring_status"
    /\ ret.prev = "resolved"
    /\ ret.ring_id \in DOMAIN rings
    /\ rings[ret.ring_id].status = "investigating"

\* C2: update_ring_status with a ring id no stored ring has returns None and
\* changes nothing in the store: no ring is created, no ring, link or
\* account changes.
C2_UnknownRingLeavesStoreUnchanged ==
    [][(ret'.op = "update_ring_status" /\ ret'.ring_id \notin DOMAIN rings)
          => /\ ret'.result = None
             /\ rings' = rings
             /\ links' = links
             /\ accounts' = accounts
             /\ txns' = txns]_vars

\* the call was made with an unknown id while rings were stored
C2_Witness ==
    /\ ret.op = "update_ring_status"
    /\ ret.ring_id \notin DOMAIN rings
    /\ ret.result = None
    /\ DOMAIN rings # {}

\* s is the beginning of t
IsPrefix(s, t) == Len(s) <= Len(t) /\ SubSeq(t, 1, Len(s)) = s

\* C21: update_ring_status(id, status, notes) on an existing ring stores the
\* new status and appends a note: the previous description is a prefix of
\* the new one, which ends with the notes text; with empty notes the
\* description is unchanged; ring_id, detected_date, confidence_score,
\* pattern_type, total_amount, member_count and every other ring are
\* unchanged.
C21_UpdateStoresStatusAndAppendsNote ==
    [][(ret'.op = "update_ring_status" /\ ret'.ring_id \in DOMAIN rings)
          => LET id == ret'.ring_id
                 old == rings[id]
                 new == rings'[id]
             IN /\ DOMAIN rings' = DOMAIN rings
                /\ new.status = ret'.status
                /\ IsPrefix(old.description, new.description)
                /\ ret'.notes # ""
                      => /\ Len(new.description) = Len(old.description) + 1
                         /\ new.description[Len(new.description)][2]
                               = ret'.notes
                /\ ret'.notes = "" => new.description = old.description
                /\ new.ring_id = old.ring_id
                /\ new.detected_date = old.detected_date
                /\ new.confidence_score = old.confidence_score
                /\ new.pattern_type = old.pattern_type
                /\ new.total_amount = old.total_amount
                /\ new.member_count = old.member_count
                /\ \A other \in DOMAIN rings \ {id} :
                      rings'[other] = rings[other]]_vars

\* a note was appended to a ring and its status changed while another ring,
\* of a different status, is stored
C21_Witness ==
    /\ ret.op = "update_ring_status"
    /\ ret.ring_id \in DOMAIN rings
    /\ ret.notes # ""
    /\ ret.prev # ret.status
    /\ Len(rings[ret.ring_id].description) = 2
    /\ \E other \in DOMAIN rings :
          other # ret.ring_id /\ rings[other].status # ret.status

\* C18: after any sequence of create_fraud_ring_from_pattern,
\* update_ring_status, link_customer_to_ring and link_account_to_ring calls,
\* the member_count of every stored ring equals the number of distinct
\* customers linked to that ring.
C18_MemberCountIsLinkedCustomers ==
    \A id \in DOMAIN rings :
        rings[id].member_count
            = Cardinality({m[2] : m \in {x \in members : x[1] = id}})

\* C20: create_fraud_ring_from_pattern(pattern, entities) adds exactly one
\* new ring, INVESTIGATING, with the pattern's confidence and type; after it
\* every id in entities is linked to that ring with role "participant"; no
\* ring stored before is changed.
C20_CreateRingLinksEveryEntity ==
    [][(ret' # ret /\ ret'.op = "create_fraud_ring_from_pattern")
          => LET id == ret'.ring_id
             IN /\ id \notin DOMAIN rings
                /\ DOMAIN rings' = DOMAIN rings \cup {id}
                /\ rings'[id].status = "investigating"
                /\ rings'[id].confidence_score = ret'.pattern.confidence
                /\ rings'[id].pattern_type = ret'.pattern.pattern_type
                /\ \A i \in DOMAIN ret'.entities :
                      <<id, ret'.entities[i], "participant">> \in links'
                         \/ <<id, ret'.entities[i], "participant">> \in members'
                /\ \A old \in DOMAIN rings : rings'[old] = rings[old]]_vars

(***************************************************************************)
(* Transaction repository (Neo4jTransactionRepository)                     *)
(***************************************************************************)
\* Transaction(...): the node and its two account relationships.  save
\* creates a relationship only to an account that exists (MATCH), and the
\* find queries read from_account_id / to_account_id off the relationships.
Transaction_keeping_ids(id, amount, ts, flagged, from, to, accts) ==
    [transaction_id |-> id, amount |-> amount, timestamp |-> ts,
     is_flagged |-> flagged, from_account_id |-> from, to_account_id |-> to]

Transaction(id, amount, ts, flagged, from, to, accts) ==
    [transaction_id |-> id, amount |-> amount, timestamp |-> ts,
     is_flagged |-> flagged,
     from_account_id |-> IF from \in DOMAIN accts THEN from ELSE NoAccountId,
     to_account_id |-> IF to \in DOMAIN accts THEN to ELSE NoAccountId]

\* save: CREATE the node, MERGE the relationships
Transaction_save(store, t) == store \cup {t}

CircularLimit == 100       \* LIMIT 100 of the cycle query
MaxCycleLength == 8        \* max_cycle_length passed by detect_circular_flow

\* the flagged transactions debited from account a and credited to account b
FlaggedTransfers(store, a, b) ==
    {t \in store :
        t.is_flagged /\ t.from_account_id = a /\ t.to_account_id = b}

\* the rows of the cycle query: start <- t1 -> a2 <- t2 -> a3 <- t3 -> start,
\* the three transactions flagged, the three accounts different; one row
\* <<t1, t2, t3>> per match, max_cycle_length is not used
CircularRows(store, maxlen) ==
    LET ids == {t.from_account_id : t \in store} \ {NoAccountId}
    IN UNION {FlaggedTransfers(store, m[1], m[2])
                  \X FlaggedTransfers(store, m[2], m[3])
                  \X FlaggedTransfers(store, m[3], m[1]) :
              m \in {x \in ids \X ids \X ids :
                        x[1] # x[2] /\ x[1] # x[3] /\ x[2] # x[3]}}

\* find_circular_transactions: the results the query can give, each the list
\* of cycles (at most 100 rows, in no stated order) that pass the length test
find_circular_transactions(store, min_cycle_length, max_cycle_length) ==
    LET rows == CircularRows(store, max_cycle_length)
        kept == IF Cardinality(rows) <= CircularLimit THEN {rows}
                ELSE {R \in SUBSET rows : Cardinality(R) = CircularLimit}
    IN {{c \in R : Len(c) >= min_cycle_length} : R \in kept}

(***************************************************************************)
(* FraudDetectionService.detect_circular_flow                              *)
(***************************************************************************)
CircularConfidence == 8    \* confidence=0.8, in tenths

\* one TransactionPattern per cycle; evidence lists "Transaction <id>: <amount>"
circular_pattern(cycle) ==
    [pattern_type |-> "circular_flow", confidence |-> CircularConfidence,
     evidence |-> [i \in 1..Len(cycle) |->
                      <<cycle[i].transaction_id, cycle[i].amount>>]]

detect_circular_flow(min_cycle_length) ==
    \E cycles \in find_circular_transactions(txns, min_cycle_length,
                                              MaxCycleLength) :
        /\ ret' = [op |-> "detect_circular_flow", min |-> min_cycle_length,
                   result |-> {circular_pattern(c) : c \in cycles}]
        /\ UNCHANGED <<args, customers, alerts, conn, members, sweep, latest, infra, now, accounts, txns, rings, links>>

\* TransactionRepository.save of a new transaction; id is its uuid4()
save_transaction(id, amount, ts, flagged, from, to) ==
    /\ id \notin {t.transaction_id : t \in txns}
    /\ txns' = Transaction_save(txns,
                    Transaction(id, amount, ts, flagged, from, to, accounts))
    /\ ret' = [op |-> "save_transaction"]

\* the transfers of the cycle runs: a ring a1 -> a2 -> a3 -> a4 -> a1 and the
\* chord a3 -> a1 that closes a1 -> a2 -> a3
CycleTransfers ==
    {<<"a1", "a2">>, <<"a2", "a3">>, <<"a3", "a4">>, <<"a4", "a1">>,
     <<"a3", "a1">>}

SaveCycleTransaction ==
    /\ Cardinality(txns) < MaxTxns
    /\ \E tr \in CycleTransfers, flagged \in BOOLEAN :
          save_transaction(Cardinality(txns) + 1, 100, now, flagged,
                           tr[1], tr[2])
    /\ UNCHANGED <<args, customers, alerts, conn, members, sweep, latest, infra, now, accounts, rings, links>>

DetectCircularFlow ==
    \E min_cycle_length \in {3, 4} : detect_circular_flow(min_cycle_length)

InitCycle ==
    /\ args = <<>>
    /\ sweep = <<>>
    /\ latest = <<>>
    /\ customers = NoCustomers
    /\ alerts = {}
    /\ conn = Connected
    /\ members = {}
    /\ infra = NoInfra
    /\ now = 0
    /\ accounts = [a \in AccountIds |->
                      [status |-> "active", created_date |-> 0,
                       risk_score |-> 0]]
    /\ txns = {}
    /\ rings = <<>>
    /\ links = {}
    /\ ret = [op |-> "init"]

NextCycle == SaveCycleTransaction \/ DetectCircularFlow

SpecCycle == InitCycle /\ [][NextCycle]_vars

(***************************************************************************)
(* Circular-flow properties                                                *)
(***************************************************************************)
\* evidence lists e and f name the same cycle: f is e read from another
\* starting account, or e read backwards from some account
Rotated(e, k) == [i \in 1..Len(e) |-> e[((i + k - 1) % Len(e)) + 1]]
Reversed(e) == [i \in 1..Len(e) |-> e[Len(e) + 1 - i]]
SameCycle(e, f) ==
    /\ Len(e) = Len(f)
    /\ \E k \in 0..(Len(e) - 1) :
          f = Rotated(e, k) \/ f = Rotated(Reversed(e), k)

\* the directed cycles of flagged transactions of length L through distinct
\* accounts, as evidence lists
FlaggedCycles(L) ==
    {[i \in 1..L |-> <<c[i].transaction_id, c[i].amount>>] :
        c \in {d \in [1..L -> {t \in txns : t.is_flagged}] :
                 /\ \A i \in 1..L :
                       /\ d[i].from_account_id # NoAccountId
                       /\ d[i].to_account_id = d[(i % L) + 1].from_account_id
                 /\ \A i, j \in 1..L :
                       i # j => d[i].from_account_id # d[j].from_account_id}}

\* a cycle through distinct accounts is no longer than the number of accounts
LongestCycle ==
    IF Cardinality(DOMAIN accounts) < MaxCycleLength
    THEN Cardinality(DOMAIN accounts) ELSE MaxCycleLength

\* C3: detect_circular_flow(3) returns one pattern per distinct cycle: no two
\* returned patterns are rotations or reversals of the same cycle.
C3_OnePatternPerCycle ==
    (ret.op = "detect_circular_flow" /\ ret.min = 3)
        => \A p, q \in ret.result :
              p # q => ~SameCycle(p.evidence, q.evidence)

\* C4: every directed cycle of flagged transactions through distinct accounts
\* of length min_cycle_length..8 is reported, and no reported pattern has a
\* length outside that range.
C4_EveryCycleUpToEightReported ==
    ret.op = "detect_circular_flow"
        => /\ \A L \in ret.min..LongestCycle : \A e \in FlaggedCycles(L) :
                 \E p \in ret.result : SameCycle(e, p.evidence)
           /\ \A p \in ret.result :
                 Len(p.evidence) \in ret.min..MaxCycleLength

(***************************************************************************)
(* RiskScoringService.calculate_account_risk                               *)
(*                                                                         *)
(* Scores are kept in half points (the code's 0.5 steps): 30.0 is 60.      *)
(* The three reads of datetime.now() inside one call are one instant.      *)
(***************************************************************************)
Min(a, b) == IF a <= b THEN a ELSE b
Max(a, b) == IF a >= b THEN a ELSE b

MinutesPerDay == 1440

\* timedelta.days of (t - since): whole days, rounded down also when negative
days_between(t, since) == (t - since) \div MinutesPerDay

Touches(t, account_id) ==
    t.from_account_id = account_id \/ t.to_account_id = account_id

\* count_transactions_in_timeframe: transactions debited from or credited to
\* the account with timestamp >= now - minutes
count_transactions_in_timeframe(store, account_id, minutes, t) ==
    Cardinality({x \in store :
                    Touches(x, account_id) /\ x.timestamp >= t - minutes})

\* find_by_account with a start_date and no end_date
find_by_account(store, account_id, start_date) ==
    {x \in store : Touches(x, account_id) /\ x.timestamp >= start_date}

HourMinutes == 60          \* minutes=60
WeekMinutes == 10080       \* timedelta(days=7)
HighValueAmount == 10000   \* t.amount > 10000

\* Factor 1: velocity_count > 10 adds min(30.0, velocity_count * 2)
velocity_score_from_ten(velocity_count) ==
    IF velocity_count >= 10 THEN Min(60, 2 * (velocity_count * 2)) ELSE 0

velocity_score(velocity_count) ==
    IF velocity_count > 10 THEN Min(60, 2 * (velocity_count * 2)) ELSE 0

\* Factor 2: flagged_count > 0 adds min(25.0, flagged_count * 5)
flagged_score(flagged_count) ==
    IF flagged_count > 0 THEN Min(50, 2 * (flagged_count * 5)) ELSE 0

\* Factor 3: account_age_days < 30 adds 15.0 - account_age_days * 0.5
age_score(account_age_days) ==
    IF account_age_days < 30 THEN 30 - account_age_days ELSE 0

\* Factor 4: a suspended account adds 20.0
status_score(status) == IF status = "suspended" THEN 40 ELSE 0

\* Factor 5: high_value_count > 0 adds min(10.0, high_value_count * 2)
value_score(high_value_count) ==
    IF high_value_count > 0 THEN Min(20, 2 * (high_value_count * 2)) ELSE 0

Factor(text, n) == [text |-> text, n |-> n]

\* RiskScore(score=min(100.0, score), ...), in half points
min_100_left_out(score) == score

min_100(score) == Min(200, score)

\* calculate_account_risk: the RiskScore (score, factors) and, in parts, the
\* five amounts the call added to score
calculate_account_risk(account_id, account, store, t) ==
    LET velocity_count ==
            count_transactions_in_timeframe(store, account_id, HourMinutes, t)
        recent_transactions ==
            find_by_account(store, account_id, t - WeekMinutes)
        flagged_count ==
            Cardinality({x \in recent_transactions : x.is_flagged})
        account_age_days == days_between(t, account.created_date)
        high_value_count ==
            Cardinality({x \in recent_transactions :
                            x.amount > HighValueAmount})
        parts == [velocity |-> velocity_score(velocity_count),
                  flagged |-> flagged_score(flagged_count),
                  age |-> age_score(account_age_days),
                  status |-> status_score(account.status),
                  value |-> value_score(high_value_count)]
        score == parts.velocity + parts.flagged + parts.age + parts.status
                     + parts.value
        factors ==
            (IF velocity_count > 10
             THEN <<Factor("High transaction velocity", velocity_count)>>
             ELSE <<>>)
            \o (IF flagged_count > 0
                THEN <<Factor("Flagged transactions", flagged_count)>>
                ELSE <<>>)
            \o (IF account_age_days < 30
                THEN <<Factor("New account", account_age_days)>> ELSE <<>>)
            \o (IF account.status = "suspended"
                THEN <<Factor("Account suspended", 0)>> ELSE <<>>)
            \o (IF high_value_count > 0
                THEN <<Factor("High-value transactions", high_value_count)>>
                ELSE <<>>)
    IN [score |-> min_100(score), factors |-> factors, parts |-> parts]

\* the call before this one, if it was calculate_account_risk for the same
\* account: its result and the clock's reading then
PreviousCall(a) ==
    IF ret.op = "calculate_account_risk" /\ ret.account_id = a
    THEN [result |-> ret.result, at |-> ret.at]
    ELSE None

\* calculate_account_risk adding to the score it returned the time before
CalculateAccountRisk_accumulating ==
    \E a \in DOMAIN accounts :
        LET r == calculate_account_risk(a, accounts[a], txns, now)
            p == PreviousCall(a)
        IN /\ ret' = [op |-> "calculate_account_risk", account_id |-> a,
                      at |-> now, prev |-> p,
                      result |-> IF p = None THEN r
                                 ELSE [r EXCEPT !.score =
                                          Min(200, @ + p.result.score + 1)]]
           /\ UNCHANGED <<args, customers, alerts, conn, members, sweep, latest, infra, now, accounts, txns,
                          rings, links>>

CalculateAccountRisk ==
    \E a \in DOMAIN accounts :
        /\ ret' = [op |-> "calculate_account_risk", account_id |-> a,
                   at |-> now, prev |-> PreviousCall(a),
                   result |-> calculate_account_risk(a, accounts[a], txns, now)]
        /\ UNCHANGED <<args, customers, alerts, conn, members, sweep, latest, infra, now, accounts, txns, rings, links>>

\* n transactions alike but for their ids
Batch(base, n, amount, ts, flagged, from, to, accts) ==
    {Transaction(base + i, amount, ts, flagged, from, to, accts) : i \in 1..n}

\* how long before the clock's reading the account was created, in minutes:
\* 10 days and 1 minute in the future, this instant, 0, 1, 29, 30, 100 days
CreatedAgo ==
    {-14400, -1, 0, 1439, 1440, 29 * 1440 + 1439, 30 * 1440, 100 * 1440}

InitAccountRisk ==
    /\ args = <<>>
    /\ sweep = <<>>
    /\ latest = <<>>
    /\ customers = NoCustomers
    /\ alerts = {}
    /\ conn = Connected
    /\ members = {}
    /\ infra = NoInfra
    /\ now = StartTime
    /\ \E status \in AccountStatus, ago \in CreatedAgo :
          accounts =
              [a \in {"a1", "a2", "a3"} |->
                  IF a = "a1"
                  THEN [status |-> status, created_date |-> now - ago,
                        risk_score |-> 0]
                  ELSE [status |-> "active", created_date |-> 0,
                        risk_score |-> 0]]
    /\ \E nHour \in {0, 10, 11, MaxHourTxns - 1, MaxHourTxns},
          nFlag \in {0, 1, MaxFlagged - 1, MaxFlagged},
          nHigh \in {0, 1, MaxHighValue - 1, MaxHighValue},
          nOld \in {0, 2}, nOther \in {0, 2} :
          txns =
              \* on the edge of the hour, plain
              Batch(100, nHour, 10000, now - HourMinutes, FALSE,
                    "a1", "a2", accounts)
              \* on the edge of the week, flagged, amount on the threshold
              \cup Batch(200, nFlag, 10000, now - WeekMinutes, TRUE,
                         "a2", "a1", accounts)
              \* two hours ago, high value
              \cup Batch(300, nHigh, 10001, now - 120, FALSE,
                         "a2", "a1", accounts)
              \* a minute older than the week
              \cup Batch(400, nOld, 20000, now - WeekMinutes - 1, TRUE,
                         "a1", "a2", accounts)
              \* between two other accounts
              \cup Batch(500, nOther, 20000, now - 30, TRUE,
                         "a2", "a3", accounts)
    /\ rings = <<>>
    /\ links = {}
    /\ ret = [op |-> "init"]

NextAccountRisk == CalculateAccountRisk

SpecAccountRisk == InitAccountRisk /\ [][NextAccountRisk]_vars

(***************************************************************************)
(* Account risk properties                                                 *)
(***************************************************************************)
\* the transactions of account a with timestamp in the trailing window
InWindow(a, minutes) ==
    {x \in txns : /\ x.from_account_id = a \/ x.to_account_id = a
                  /\ now - minutes <= x.timestamp
                  /\ x.timestamp <= now}

C8_EveryFactorCapped ==
    ret.op = "calculate_account_risk" =>
        /\ ret.result.parts.velocity <= 60
        /\ ret.result.parts.flagged <= 50
        /\ ret.result.parts.age >= 0 /\ ret.result.parts.age <= 30
        /\ ret.result.parts.status <= 40
        /\ ret.result.parts.value <= 20

(***************************************************************************)
(* RiskScoringService.calculate_customer_risk                              *)
(*                                                                         *)
(* The customer score is a float built from an average; the model keeps it *)
(* exact as a fraction num/den with den > 0.  Account risk scores are in   *)
(* half points, as stored.                                                 *)
(***************************************************************************)
Rat(num, den) == [num |-> num, den |-> den]
RatAdd(x, y) == Rat(x.num * y.den + y.num * x.den, x.den * y.den)
RatLeq(x, y) == x.num * y.den <= y.num * x.den
RatMin(x, y) == IF RatLeq(x, y) THEN x ELSE y

RECURSIVE SumRisk(_)
SumRisk(accts) ==
    IF accts = <<>> THEN 0 ELSE Head(accts).risk_score + SumRisk(Tail(accts))

\* Factor 1: KYC failed adds 25.0, pending 15.0
kyc_score(kyc_status) ==
    IF kyc_status = "failed" THEN Rat(25, 1)
    ELSE IF kyc_status = "pending" THEN Rat(15, 1)
    ELSE Rat(0, 1)

\* avg_account_risk = sum(a.risk_score) / len(accounts), in points
avg_account_risk(accts) == Rat(SumRisk(accts), 2 * Len(accts))

\* Factor 2: (avg_account_risk / 100) * 30 when the list is not empty
account_risk_score(accts) ==
    IF accts # <<>>
    THEN LET avg == avg_account_risk(accts)
         IN Rat(avg.num * 30, avg.den * 100)
    ELSE Rat(0, 1)

\* Factor 3 applies to a customer of fewer than 60 days
is_new_customer_through_sixty(customer_age_days) == customer_age_days <= 60

is_new_customer(customer_age_days) == customer_age_days < 60

\* Factor 3: 15.0 - customer_age_days * 0.25
customer_age_score(customer_age_days) ==
    IF is_new_customer(customer_age_days)
    THEN Rat(60 - customer_age_days, 4)
    ELSE Rat(0, 1)

\* Factor 4: more than 5 accounts add min(10.0, (len(accounts) - 5) * 2)
account_count_score_from_zero(n) ==
    IF n > 5 THEN Rat(Min(10, n * 2), 1) ELSE Rat(0, 1)

account_count_score(n) ==
    IF n > 5 THEN Rat(Min(10, (n - 5) * 2), 1) ELSE Rat(0, 1)

\* f"{avg_account_risk:.1f}": the average in tenths, rounded half to even
format_tenths(x) ==
    LET q == (10 * x.num) \div x.den
        r == (10 * x.num) % x.den
    IN IF 2 * r < x.den THEN q
       ELSE IF 2 * r > x.den THEN q + 1
       ELSE IF q % 2 = 0 THEN q ELSE q + 1

calculate_customer_risk(customer, accts, t) ==
    LET customer_age_days == days_between(t, customer.customer_since)
        score ==
            RatAdd(RatAdd(RatAdd(kyc_score(customer.kyc_status),
                                 account_risk_score(accts)),
                          customer_age_score(customer_age_days)),
                   account_count_score(Len(accts)))
        factors ==
            (IF customer.kyc_status = "failed"
             THEN <<Factor("KYC verification failed", 0)>>
             ELSE IF customer.kyc_status = "pending"
             THEN <<Factor("KYC verification pending", 0)>>
             ELSE <<>>)
            \o (IF accts # <<>>
                   /\ ~RatLeq(avg_account_risk(accts), Rat(50, 1))
                THEN <<Factor("High average account risk",
                              format_tenths(avg_account_risk(accts)))>>
                ELSE <<>>)
            \o (IF is_new_customer(customer_age_days)
                THEN <<Factor("New customer", customer_age_days)>> ELSE <<>>)
            \o (IF Len(accts) > 5
                THEN <<Factor("Multiple accounts", Len(accts))>> ELSE <<>>)
    IN [score |-> RatMin(Rat(100, 1), score), factors |-> factors]

\* how long before the clock's reading the customer joined, in minutes:
\* 400 days and 1 minute in the future, 0 days, a minute short of 60 days,
\* 60 days, 400 days
SinceAgo == {-400 * 1440, -1, 0, 59 * 1440 + 1439, 60 * 1440, 400 * 1440}

Customers ==
    {[kyc_status |-> k, customer_since |-> StartTime - ago] :
        k \in KYCStatus, ago \in SinceAgo}

\* a list of owned accounts: high at 100.0, mid at 50.5, low at 0.0
AccountList(nHigh, nMid, nLow) ==
    [i \in 1..(nHigh + nMid + nLow) |->
        [status |-> "active", created_date |-> 0,
         risk_score |-> IF i <= nHigh THEN 200
                        ELSE IF i <= nHigh + nMid THEN 101 ELSE 0]]

\* calculate_customer_risk writing a verified KYC status back to the customer
CalculateCustomerRisk_storing ==
    /\ ret' = [op |-> "calculate_customer_risk", customer |-> args.customer,
               accounts |-> args.accounts,
               result |-> calculate_customer_risk(args.customer,
                                                  args.accounts, now)]
    /\ args' = [args EXCEPT !.customer.kyc_status = "verified"]
    /\ UNCHANGED <<customers, alerts, conn, members, sweep, latest, infra, now,
                   accounts, txns, rings, links>>

CalculateCustomerRisk ==
    /\ ret' = [op |-> "calculate_customer_risk", customer |-> args.customer,
               accounts |-> args.accounts,
               result |-> calculate_customer_risk(args.customer,
                                                  args.accounts, now)]
    /\ UNCHANGED <<args, customers, alerts, conn, members, sweep, latest, infra, now, accounts, txns, rings, links>>

InitCustomerRisk ==
    /\ \E customer \in Customers, nHigh, nMid, nLow \in 0..MaxOwned :
          /\ nHigh + nMid + nLow <= MaxOwned
          /\ args = [customer |-> customer,
                     accounts |-> AccountList(nHigh, nMid, nLow)]
    /\ sweep = <<>>
    /\ latest = <<>>
    /\ customers = NoCustomers
    /\ alerts = {}
    /\ conn = Connected
    /\ members = {}
    /\ infra = NoInfra
    /\ now = StartTime
    /\ accounts = <<>>
    /\ txns = {}
    /\ rings = <<>>
    /\ links = {}
    /\ ret = [op |-> "init"]

NextCustomerRisk == CalculateCustomerRisk

SpecCustomerRisk == InitCustomerRisk /\ [][NextCustomerRisk]_vars

(***************************************************************************)
(* Customer risk properties                                                *)
(***************************************************************************)
\* C9: score = min(100, K + R + D + M): K = 25 failed, 15 pending, 0 verified;
\* R = (average risk_score / 100) * 30, 0 with no accounts; D = max(0, 15 -
\* 0.25 * age_days) if age_days < 60; M = min(10, 2 * (n - 5)) if n > 5; the
\* result lies in [0, 100].  Compared after multiplying through by 40 * n.
C9_CustomerScoreFormula ==
    ret.op = "calculate_customer_risk" =>
        LET n == Len(ret.accounts)
            sum == SumRisk(ret.accounts)       \* half points
            d == (now - ret.customer.customer_since) \div (24 * 60)
            Q == IF n > 0 THEN 40 * n ELSE 40
            K == IF ret.customer.kyc_status = "failed" THEN 25
                 ELSE IF ret.customer.kyc_status = "pending" THEN 15 ELSE 0
            RQ == IF n > 0 THEN 6 * sum ELSE 0  \* (sum / 2n / 100) * 30 * 40n
            DQ == IF d < 60
                  THEN (IF 60 - d > 0 THEN (60 - d) * (Q \div 4) ELSE 0)
                  ELSE 0
            M == IF n > 5 THEN (IF 2 * (n - 5) < 10 THEN 2 * (n - 5) ELSE 10)
                 ELSE 0
            totalQ == K * Q + RQ + DQ + M * Q
            clampedQ == IF totalQ < 100 * Q THEN totalQ ELSE 100 * Q
            r == ret.result.score
        IN /\ r.den > 0
           /\ r.num * Q = clampedQ * r.den
           /\ 0 <= r.num /\ r.num <= 100 * r.den

\* a pending, new customer with more than 5 accounts of non-zero average
C9_Witness ==
    /\ ret.op = "calculate_customer_risk"
    /\ ret.customer.kyc_status = "pending"
    /\ Len(ret.accounts) = 7
    /\ SumRisk(ret.accounts) = 200 + 101
    /\ (now - ret.customer.customer_since) \div (24 * 60) = 59
    /\ ret.result.score.num * 280 = (15 * 280 + 6 * 301 + 70 + 4 * 280)
                                        * ret.result.score.den

\* C10 (as stated): KYC failed and zero accounts give score 25 and factors
\* ["KYC verification failed"], whatever customer_since is.
C10_FailedKycNoAccounts ==
    (/\ ret.op = "calculate_customer_risk"
     /\ ret.customer.kyc_status = "failed"
     /\ ret.accounts = <<>>)
        => /\ ret.result.score.num = 25 * ret.result.score.den
           /\ ret.result.factors = <<Factor("KYC verification failed", 0)>>

\* C10 (amended): KYC failed, zero accounts and a customer_since at least 60
\* whole days before the reference time give score 25 and factors
\* ["KYC verification failed"].
C10_FailedKycNoAccountsOldCustomer ==
    (/\ ret.op = "calculate_customer_risk"
     /\ ret.customer.kyc_status = "failed"
     /\ ret.accounts = <<>>
     /\ now - ret.customer.customer_since >= 60 * 24 * 60)
        => /\ ret.result.score.num = 25 * ret.result.score.den
           /\ ret.result.factors = <<Factor("KYC verification failed", 0)>>

\* a customer of exactly 60 days, KYC failed, no accounts, was scored 25
C10_Witness ==
    /\ ret.op = "calculate_customer_risk"
    /\ ret.customer.kyc_status = "failed"
    /\ ret.accounts = <<>>
    /\ now - ret.customer.customer_since = 60 * 24 * 60
    /\ ret.result.score.num = 25 * ret.result.score.den

(***************************************************************************)
(* Account repository (Neo4jAccountRepository)                             *)
(***************************************************************************)
\* find_by_id: the node with that account_id, or None
Account_find_by_id(store, account_id) ==
    IF account_id \in DOMAIN store THEN store[account_id] ELSE None

\* update_risk_score: MATCH the account, SET a.risk_score
update_risk_score_and_status(store, account_id, risk_score) ==
    IF account_id \in DOMAIN store
    THEN [store EXCEPT ![account_id].risk_score = risk_score,
                       ![account_id].status = "suspended"]
    ELSE store

update_risk_score(store, account_id, risk_score) ==
    IF account_id \in DOMAIN store
    THEN [store EXCEPT ![account_id].risk_score = risk_score]
    ELSE store

(***************************************************************************)
(* find_flagged_transactions                                               *)
(***************************************************************************)
\* the results the query can give: the flagged transactions, newest first,
\* cut after `limit` rows; rows of equal timestamp come in any order
find_flagged_transactions(store, limit) ==
    LET flagged == {t \in store : t.is_flagged}
        newer(T) == {t \in flagged : t.timestamp > T}
        at(T) == {t \in flagged : t.timestamp = T}
    IN IF Cardinality(flagged) <= limit THEN {flagged}
       ELSE LET T == CHOOSE T \in {t.timestamp : t \in flagged} :
                        /\ Cardinality(newer(T)) < limit
                        /\ Cardinality(newer(T)) + Cardinality(at(T)) >= limit
                r == limit - Cardinality(newer(T))
            IN IF r = Cardinality(at(T)) THEN {newer(T) \cup at(T)}
               ELSE {newer(T) \cup S :
                        S \in {X \in SUBSET at(T) : Cardinality(X) = r}}

(***************************************************************************)
(* FraudInvestigationService.detect_fraud_patterns, one caller p           *)
(***************************************************************************)
SweepLimit == 1000         \* find_flagged_transactions(limit=1000)
HighRiskScore == 140       \* risk_score.score >= 70.0, in half points

\* lines 150-204: the detections (all of them reads; the circular one is
\* kept), the flagged transactions, and the set of account ids on them
sweep_start(p) ==
    /\ sweep[p].pc = "idle"
    /\ sweep[p].runs < MaxSweeps
    /\ \E cycles \in find_circular_transactions(txns, 3, MaxCycleLength),
          flagged_transactions \in find_flagged_transactions(txns, SweepLimit) :
          LET account_ids ==
                  ({t.from_account_id : t \in flagged_transactions}
                       \cup {t.to_account_id : t \in flagged_transactions})
                  \ {NoAccountId}
          IN sweep' = [sweep EXCEPT ![p] =
                 [pc |-> "loop", runs |-> @.runs,
                  circular_flow |-> Cardinality(cycles),
                  flagged_transactions |-> Cardinality(flagged_transactions),
                  account_ids |-> account_ids, todo |-> account_ids,
                  account_id |-> NoAccountId, risk_score |-> 0,
                  updated_accounts |-> 0, high_risk_count |-> 0]]
    /\ UNCHANGED <<args, customers, alerts, conn, members, latest, infra, now, accounts, txns, rings, links, ret>>

\* lines 210-212: the next account id, find_by_id and calculate_account_risk
sweep_calculate(p) ==
    /\ sweep[p].pc = "loop"
    /\ \E account_id \in sweep[p].todo :
          LET account == Account_find_by_id(accounts, account_id)
          IN IF account # None
             THEN LET risk_score ==
                          calculate_account_risk(account_id, account, txns, now)
                  IN /\ sweep' = [sweep EXCEPT ![p].pc = "update",
                                               ![p].account_id = account_id,
                                               ![p].risk_score = risk_score.score]
                     /\ latest' = [a \in DOMAIN latest \cup {account_id} |->
                                      IF a = account_id THEN risk_score.score
                                      ELSE latest[a]]
             ELSE /\ sweep' = [sweep EXCEPT ![p].todo = @ \ {account_id}]
                  /\ latest' = latest
    /\ UNCHANGED <<args, customers, alerts, conn, members, infra, now, accounts, txns, rings, links, ret>>

\* lines 213-221: update_risk_score and the two counts
sweep_update(p) ==
    /\ sweep[p].pc = "update"
    /\ accounts' = update_risk_score(accounts, sweep[p].account_id,
                                      sweep[p].risk_score)
    /\ sweep' = [sweep EXCEPT
           ![p].pc = "loop",
           ![p].todo = @ \ {sweep[p].account_id},
           ![p].updated_accounts = @ + 1,
           ![p].high_risk_count =
               IF sweep[p].risk_score >= HighRiskScore THEN @ + 1 ELSE @]
    /\ UNCHANGED <<args, customers, alerts, conn, members, latest, infra, now, txns, rings, links, ret>>

\* lines 223-230: the loop is over, results are returned
sweep_return(p) ==
    /\ sweep[p].pc = "loop"
    /\ sweep[p].todo = {}
    /\ ret' = [op |-> "detect_fraud_patterns", caller |-> p,
               result |->
                 [circular_flow |-> sweep[p].circular_flow,
                  accounts_evaluated |-> Cardinality(sweep[p].account_ids),
                  accounts_updated |-> sweep[p].updated_accounts,
                  high_risk_accounts |-> sweep[p].high_risk_count,
                  flagged_transactions_processed |->
                      sweep[p].flagged_transactions]]
    /\ sweep' = [sweep EXCEPT ![p] = [pc |-> "idle", runs |-> @.runs + 1]]
    /\ UNCHANGED <<args, customers, alerts, conn, members, latest, infra, now, accounts, txns, rings, links>>

SweepStart == \E p \in DOMAIN sweep : sweep_start(p)
SweepCalculate == \E p \in DOMAIN sweep : sweep_calculate(p)
SweepUpdate == \E p \in DOMAIN sweep : sweep_update(p)
SweepReturn == \E p \in DOMAIN sweep : sweep_return(p)

\* the transactions saved around the sweeps: from, to, minutes ago, flagged
SweepTransfers ==
    {<<"a2", "a3", 2000, TRUE>>, <<"a3", "a1", 2000, FALSE>>,
     <<"a3", NoAccountId, 3000, TRUE>>}

BulkIds == 1..SweepLimit

NoSweepRunning == \A p \in DOMAIN sweep : sweep[p].pc = "idle"

\* a transaction saved at any moment
SaveSweepTransaction ==
    /\ Cardinality({t \in txns : t.transaction_id \notin BulkIds}) < MaxSaves
    /\ \E tr \in SweepTransfers :
          save_transaction(
              SweepLimit + 1
                  + Cardinality({t \in txns : t.transaction_id \notin BulkIds}),
              100, now - tr[3], tr[4], tr[1], tr[2])
    /\ UNCHANGED <<args, customers, alerts, conn, members, sweep, latest, infra, now, accounts, rings, links>>

\* a transaction saved while no sweep is running
SaveBetweenSweeps == NoSweepRunning /\ SaveSweepTransaction

OldAccount == [status |-> "active", created_date |-> 0, risk_score |-> 0]

\* one caller; the store holds 0, 999 or 1000 flagged transfers a1 -> a2 of
\* this minute
InitSweep ==
    /\ args = <<>>
    /\ sweep = [p \in {"s1"} |-> [pc |-> "idle", runs |-> 0]]
    /\ latest = <<>>
    /\ customers = NoCustomers
    /\ alerts = {}
    /\ conn = Connected
    /\ members = {}
    /\ infra = NoInfra
    /\ now = StartTime
    /\ accounts = [a \in {"a1", "a2", "a3"} |-> OldAccount]
    /\ \E n \in {0, SweepLimit - 1, SweepLimit} :
          txns = Batch(0, n, 100, now, TRUE, "a1", "a2", accounts)
    /\ rings = <<>>
    /\ links = {}
    /\ ret = [op |-> "init"]

NextSweep ==
    \/ SaveBetweenSweeps
    \/ SweepStart
    \/ SweepCalculate
    \/ SweepUpdate
    \/ SweepReturn

SpecSweep == InitSweep /\ [][NextSweep]_vars

\* two callers at once, transactions saved at any moment
InitConcurrentSweeps ==
    /\ args = <<>>
    /\ sweep = [p \in {"s1", "s2"} |-> [pc |-> "idle", runs |-> 0]]
    /\ latest = <<>>
    /\ customers = NoCustomers
    /\ alerts = {}
    /\ conn = Connected
    /\ members = {}
    /\ infra = NoInfra
    /\ now = StartTime
    /\ accounts = [a \in {"a1", "a2", "a3"} |-> OldAccount]
    /\ txns = Batch(0, 1, 100, now, TRUE, "a1", "a2", accounts)
    /\ rings = <<>>
    /\ links = {}
    /\ ret = [op |-> "init"]

NextConcurrentSweeps ==
    \/ SaveSweepTransaction
    \/ SweepStart
    \/ SweepCalculate
    \/ SweepUpdate
    \/ SweepReturn

SpecConcurrentSweeps == InitConcurrentSweeps /\ [][NextConcurrentSweeps]_vars

(***************************************************************************)
(* Sweep properties                                                        *)
(***************************************************************************)
\* C5: when detect_fraud_patterns returns with no other writer running, every
\* existing account that is the source or destination of at least one flagged
\* transaction has the risk_score calculate_account_risk computes for it,
\* whatever the number of flagged transactions.
C5_SweepScoresEveryFlaggedAccount ==
    ret.op = "detect_fraud_patterns" =>
        \A a \in DOMAIN accounts :
            (\E t \in txns : t.is_flagged /\ Touches(t, a))
                => accounts[a].risk_score
                       = calculate_account_risk(a, accounts[a], txns, now).score

\* C6: once both concurrent sweeps have finished, each account's stored
\* risk_score is the value of the most recent recomputation made for it.
C6_LastRecomputationWins ==
    (\A p \in DOMAIN sweep : sweep[p].pc = "idle" /\ sweep[p].runs >= 1)
        => \A a \in DOMAIN latest : accounts[a].risk_score = latest[a]

(***************************************************************************)
(* Fan-out and fan-in (Neo4jGraphQueryRepository, FraudDetectionService)   *)
(***************************************************************************)
FanTimeframeHours == 24    \* timeframe_hours=24
FanConfidenceCap == 9      \* min(0.9, ...), in tenths

RECURSIVE SumAmount(_)
SumAmount(S) ==
    IF S = {} THEN 0
    ELSE LET x == CHOOSE x \in S : TRUE IN x.amount + SumAmount(S \ {x})

\* the rows of MATCH (from_account)<-[:DEBITED_FROM]-(t)-[:CREDITED_TO]->
\* (to_account) WHERE t.timestamp >= cutoff: both accounts exist
FanMatches_any_time(store, t, timeframe_hours) ==
    {x \in store : /\ x.from_account_id # NoAccountId
                   /\ x.to_account_id # NoAccountId}

FanMatches(store, t, timeframe_hours) ==
    {x \in store : /\ x.from_account_id # NoAccountId
                   /\ x.to_account_id # NoAccountId
                   /\ x.timestamp >= t - timeframe_hours * 60}

\* the lists a result set can come in under ORDER BY count DESC
RECURSIVE OrderedByCountDesc(_)
OrderedByCountDesc(rows) ==
    IF rows = {} THEN {<<>>}
    ELSE UNION {{<<r>> \o s : s \in OrderedByCountDesc(rows \ {r})} :
                r \in {x \in rows : \A y \in rows : x.count >= y.count}}

\* detect_fan_out_pattern: one row per from_account with
\* count(DISTINCT to_account) >= min_recipients
detect_fan_out_pattern(store, min_recipients, timeframe_hours, t) ==
    LET m == FanMatches(store, t, timeframe_hours)
        of(a) == {x \in m : x.from_account_id = a}
        rows == {[account_id |-> a,
                  count |-> Cardinality({x.to_account_id : x \in of(a)}),
                  total_amount |-> SumAmount(of(a))] :
                 a \in {x.from_account_id : x \in m}}
    IN OrderedByCountDesc({r \in rows : r.count >= min_recipients})

\* detect_fan_in_pattern: one row per to_account with
\* count(DISTINCT from_account) >= min_senders
detect_fan_in_pattern(store, min_senders, timeframe_hours, t) ==
    LET m == FanMatches(store, t, timeframe_hours)
        of(a) == {x \in m : x.to_account_id = a}
        rows == {[account_id |-> a,
                  count |-> Cardinality({x.from_account_id : x \in of(a)}),
                  total_amount |-> SumAmount(of(a))] :
                 a \in {x.to_account_id : x \in m}}
    IN OrderedByCountDesc({r \in rows : r.count >= min_senders})

\* confidence=min(0.9, count / 10), in tenths
fan_confidence_uncapped(count) == count

fan_confidence(count) == Min(FanConfidenceCap, count)

\* the TransactionPattern built from one row; evidence as the two f-strings
fan_pattern(ptype, verb, row) ==
    [pattern_type |-> ptype,
     confidence |-> fan_confidence(row.count),
     evidence |-> <<"Account " \o row.account_id \o " " \o verb \o " "
                        \o ToString(row.count) \o " accounts",
                    "Total amount: " \o ToString(row.total_amount)>>]

fan_out_patterns(results) ==
    [i \in DOMAIN results |-> fan_pattern("fan_out", "sent to", results[i])]

fan_in_patterns(results) ==
    [i \in DOMAIN results |->
        fan_pattern("fan_in", "received from", results[i])]

detect_fan_out(min_recipients) ==
    \E results \in detect_fan_out_pattern(txns, min_recipients,
                                           FanTimeframeHours, now) :
        /\ ret' = [op |-> "detect_fan_out", min |-> min_recipients,
                   rows |-> results, result |-> fan_out_patterns(results)]
        /\ UNCHANGED <<args, customers, alerts, conn, members, sweep, latest, infra, now, accounts, txns, rings, links>>

detect_fan_in(min_senders) ==
    \E results \in detect_fan_in_pattern(txns, min_senders,
                                          FanTimeframeHours, now) :
        /\ ret' = [op |-> "detect_fan_in", min |-> min_senders,
                   rows |-> results, result |-> fan_in_patterns(results)]
        /\ UNCHANGED <<args, customers, alerts, conn, members, sweep, latest, infra, now, accounts, txns, rings, links>>

\* the thresholds the detections are called with
FanThresholds == {2, 5, 6, MaxFan}

DetectFanOut == \E m \in FanThresholds : detect_fan_out(m)

DetectFanIn == \E m \in FanThresholds : detect_fan_in(m)

\* account ids of three formats: a uuid4 string, a short id with a dash,
\* and 36 characters without a dash
HubIds ==
    {"3f2b8c1e-5a4d-4e6f-8a9b-0c1d2e3f4a5b", "ACC-0001",
     "acct00000000000000000000000000000001"}

SecondHub == "9a8b7c6d-1e2f-4a3b-8c4d-5e6f7a8b9c0d"

MissingAccount == "zz"

Counterparty(i) == "r" \o ToString(i)

\* one transfer between hub and counterparty i, in the given direction
FanTransfer(id, dir, hub, i, amount, ts, accts) ==
    IF dir = "out"
    THEN Transaction(id, amount, ts, FALSE, hub, Counterparty(i), accts)
    ELSE Transaction(id, amount, ts, FALSE, Counterparty(i), hub, accts)

\* the store of a fan run: hub 1 with n1 counterparties inside the window
\* (at `ago` minutes), old1 more outside it, a repeated transfer with
\* counterparty 1 if dup, a transfer with an account that does not exist if
\* ghost; hub 2 with n2 counterparties inside the window, the first of them
\* counterparty 1 of hub 1
FanStore(dir, hub1, n1, old1, dup, ghost, n2, ago, t, accts) ==
    {FanTransfer(i, dir, hub1, i, 100, t - ago, accts) : i \in 1..n1}
    \cup {FanTransfer(20 + i, dir, hub1, n1 + i, 100,
                       t - FanTimeframeHours * 60 - 1, accts) : i \in 1..old1}
    \cup (IF dup /\ n1 > 0
          THEN {FanTransfer(40, dir, hub1, 1, 50, t - 5, accts)} ELSE {})
    \cup (IF ghost
          THEN {IF dir = "out"
                THEN Transaction(41, 100, t - 5, FALSE, hub1, MissingAccount,
                                 accts)
                ELSE Transaction(41, 100, t - 5, FALSE, MissingAccount, hub1,
                                 accts)}
          ELSE {})
    \cup {FanTransfer(60 + i, dir, SecondHub,
                       IF i = 1 THEN 1 ELSE MaxFan + 2 + i, 200, t - 5, accts) :
              i \in 1..n2}

InitFan ==
    /\ args = <<>>
    /\ sweep = <<>>
    /\ latest = <<>>
    /\ customers = NoCustomers
    /\ alerts = {}
    /\ conn = Connected
    /\ members = {}
    /\ infra = NoInfra
    /\ now = StartTime
    /\ rings = <<>>
    /\ links = {}
    /\ ret = [op |-> "init"]
    /\ \E hub1 \in HubIds, dir \in {"out", "in"},
          n1 \in {0, 1, 4, 5, 6, 12, MaxFan}, old1 \in {0, 2},
          dup \in BOOLEAN, ghost \in BOOLEAN, n2 \in {0, 5, 12},
          ago \in {10, FanTimeframeHours * 60} :
          /\ accounts = [a \in {hub1, SecondHub}
                                  \cup {Counterparty(i) : i \in 1..(2 * MaxFan + 2)}
                              |-> OldAccount]
          /\ txns = FanStore(dir, hub1, n1, old1, dup, ghost, n2, ago, now,
                             accounts)

NextFan ==
    \/ DetectFanOut
    \/ DetectFanIn

SpecFan == InitFan /\ [][NextFan]_vars

(***************************************************************************)
(* Fan properties                                                          *)
(***************************************************************************)
\* the distinct destination accounts of a's transfers in the trailing 24 hours
Recipients(a) ==
    {x.to_account_id : x \in {y \in txns : /\ y.from_account_id = a
                                           /\ y.to_account_id \in DOMAIN accounts
                                           /\ y.timestamp >= now - 24 * 60
                                           /\ y.timestamp <= now}}

\* the distinct sender accounts of the transfers into a in the trailing 24 hours
Senders(a) ==
    {x.from_account_id : x \in {y \in txns : /\ y.to_account_id = a
                                             /\ y.from_account_id \in DOMAIN accounts
                                             /\ y.timestamp >= now - 24 * 60
                                             /\ y.timestamp <= now}}

\* C11: every pattern detect_fan_out returns for a source account with r
\* distinct recipients has confidence min(0.9, r/10) (in tenths: min(9, r)):
\* 5 recipients give 0.5, 12 give 0.9, and no confidence exceeds 0.9.
C11_FanOutConfidence ==
    ret.op = "detect_fan_out" =>
        \A i \in DOMAIN ret.result :
            LET r == Cardinality(Recipients(ret.rows[i].account_id))
                c == ret.result[i].confidence
            IN /\ c = (IF r < 9 THEN r ELSE 9)
               /\ r = 5 => c = 5
               /\ r = 12 => c = 9
               /\ c <= 9

\* detect_fan_out returned a pattern for 5 recipients and one for 12
C11_Witness ==
    /\ ret.op = "detect_fan_out"
    /\ \E i, j \in DOMAIN ret.result :
          /\ Cardinality(Recipients(ret.rows[i].account_id)) = 12
          /\ ret.result[i].confidence = 9
          /\ Cardinality(Recipients(ret.rows[j].account_id)) = 5
          /\ ret.result[j].confidence = 5

MinThroughput == 10000     \* min_throughput=10000
MaxHoldTimeHours == 48     \* max_hold_time_hours=48

\* duration.between(t_in.timestamp, t_out.timestamp).hours, negative when the
\* outbound transfer is the earlier one; the gaps of the runs are below one
\* day, where the hours component is the whole gap
hold_hours(t_in, t_out) ==
    LET d == t_out.timestamp - t_in.timestamp
    IN IF d >= 0 THEN d \div 60 ELSE -((-d) \div 60)

\* the rows left by the two MATCH clauses and the WHERE on the hold time:
\* one row per pair of an inbound and an outbound transaction of account a
MulePairs(store, a, max_hold_time_hours) ==
    {p \in {x \in store : x.to_account_id = a}
            \X {x \in store : x.from_account_id = a} :
        hold_hours(p[1], p[2]) <= max_hold_time_hours}

RECURSIVE SumPairs(_, _)
SumPairs(pairs, k) ==
    IF pairs = {} THEN 0
    ELSE LET p == CHOOSE p \in pairs : TRUE
         IN p[k].amount + SumPairs(pairs \ {p}, k)

\* WITH a, sum(t_in.amount), sum(t_out.amount): the sums run over the rows
mule_totals(store, a, max_hold_time_hours) ==
    LET pairs == MulePairs(store, a, max_hold_time_hours)
    IN [rows |-> Cardinality(pairs),
        total_in |-> SumPairs(pairs, 1),
        total_out |-> SumPairs(pairs, 2)]

Abs(x) == IF x >= 0 THEN x ELSE -x

\* total_in >= min_throughput AND abs(total_in - total_out) / total_in < 0.1
detect_mule_accounts_query(store, accts, min_throughput, max_hold_time_hours) ==
    {a \in DOMAIN accts :
        LET s == mule_totals(store, a, max_hold_time_hours)
        IN /\ s.rows > 0
           /\ s.total_in >= min_throughput
           /\ 10 * Abs(s.total_in - s.total_out) < s.total_in}

\* FraudDetectionService.detect_mule_accounts
detect_mule_accounts ==
    /\ ret' = [op |-> "detect_mule_accounts",
               result |-> detect_mule_accounts_query(txns, accounts,
                              MinThroughput, MaxHoldTimeHours)]
    /\ UNCHANGED <<args, customers, alerts, conn, members, sweep, latest, infra, now, accounts, txns, rings, links>>

MuleInAmounts == {6000, 12000}
MuleOutAmounts == {2000, 5900, 6000, 11900}
MuleGaps == {-300, 600, 1380}      \* outbound after inbound, in minutes

\* a1 pays a2, a2 pays a3: `ins` the inbound amounts, `outs` the outbound
\* amounts, all outbound transfers `gap` minutes after the inbound ones
MuleStore(ins, outs, gap, t, accts) ==
    {Transaction(i, ins[i], t - 2000, FALSE, "a1", "a2", accts) :
        i \in DOMAIN ins}
    \cup {Transaction(10 + i, outs[i], t - 2000 + gap, FALSE, "a2", "a3",
                       accts) : i \in DOMAIN outs}

InitMule ==
    /\ args = <<>>
    /\ sweep = <<>>
    /\ latest = <<>>
    /\ customers = NoCustomers
    /\ alerts = {}
    /\ conn = Connected
    /\ members = {}
    /\ infra = NoInfra
    /\ now = StartTime
    /\ rings = <<>>
    /\ links = {}
    /\ ret = [op |-> "init"]
    /\ accounts = [a \in {"a1", "a2", "a3"} |-> OldAccount]
    /\ \E nIn \in 1..MaxLegs, nOut \in 0..MaxLegs :
          \E ins \in [1..nIn -> MuleInAmounts],
             outs \in [1..nOut -> MuleOutAmounts], gap \in MuleGaps :
             txns = MuleStore(ins, outs, gap, now, accounts)

NextMule == detect_mule_accounts

SpecMule == InitMule /\ [][NextMule]_vars

(***************************************************************************)
(* Mule properties                                                         *)
(***************************************************************************)
Inbound(a) == {x \in txns : x.to_account_id = a}
Outbound(a) == {x \in txns : x.from_account_id = a}

\* C13: an account is flagged if and only if its inflow (each inbound
\* transaction counted once) is at least 10000, its outbound transfers fall
\* within 48 hours after the inbound ones, and |inflow - outflow| / inflow
\* < 0.10 with outflow the sum of its outbound amounts, each counted once.
C13_MuleFlaggedIffPassThrough ==
    ret.op = "detect_mule_accounts" =>
        \A a \in DOMAIN accounts :
            a \in ret.result <=>
                LET inflow == SumAmount(Inbound(a))
                    outflow == SumAmount(Outbound(a))
                IN /\ inflow >= 10000
                   /\ Outbound(a) # {}
                   /\ \A i \in Inbound(a), o \in Outbound(a) :
                         /\ o.timestamp >= i.timestamp
                         /\ o.timestamp - i.timestamp <= 48 * 60
                   /\ 10 * Abs(inflow - outflow) < inflow

(***************************************************************************)
(* Shared infrastructure (find_shared_infrastructure and its two callers)  *)
(***************************************************************************)
CustomerIds == {"c" \o ToString(i) : i \in 1..MaxSharers}
DeviceIds == {"d1", "d2"}
IpAddresses == {"10.0.0.1"}

\* customer ids compare as the strings they are; the ids of the runs have
\* one digit, so their order is the order of the digit
IdLess(x, y) ==
    \E i, j \in 1..9 : /\ i < j
                        /\ SubSeq(x, 2, Len(x)) = ToString(i)
                        /\ SubSeq(y, 2, Len(y)) = ToString(j)
                        /\ SubSeq(x, 1, 1) = SubSeq(y, 1, 1)

\* collect(DISTINCT x) + collect(DISTINCT y): a list, kept as the bag of its
\* elements since the order inside a collect() is not fixed
Collected(xs, ys) == SetToBag(xs) (+) SetToBag(ys)

\* the device query: rows (c1, d, c2) with c1.customer_id < c2.customer_id,
\* grouped by d.device_id
shared_devices(inf) ==
    LET rows(d) == {p \in CustomerIds \X CustomerIds :
                       /\ <<p[1], d>> \in inf.used_device
                       /\ <<p[2], d>> \in inf.used_device
                       /\ IdLess(p[1], p[2])}
    IN {[infrastructure_id |-> d,
         ids |-> Collected({p[1] : p \in rows(d)}, {p[2] : p \in rows(d)}),
         user_count |-> Cardinality({p[1] : p \in rows(d)})
                            + Cardinality({p[2] : p \in rows(d)})] :
        d \in {x \in DeviceIds : rows(x) # {}}}

\* the accounts at either end of a transaction
AccountsOf(store, transaction_id) ==
    UNION {{t.from_account_id, t.to_account_id} \ {NoAccountId} :
           t \in {x \in store : x.transaction_id = transaction_id}}

\* the IP query: rows (t1, a1, ip, t2, a2) with t1 and t2 two transactions
\* from the address and a1.account_id < a2.account_id, grouped by ip_address
shared_ips(inf, store, accts) ==
    LET rows(ip) ==
            {p \in (DOMAIN accts) \X (DOMAIN accts) :
                /\ IdLess(p[1], p[2])
                /\ \E r1, r2 \in inf.from_ip :
                      /\ r1[2] = ip /\ r2[2] = ip /\ r1[1] # r2[1]
                      /\ p[1] \in AccountsOf(store, r1[1])
                      /\ p[2] \in AccountsOf(store, r2[1])}
    IN {[infrastructure_id |-> ip,
         ids |-> Collected({p[1] : p \in rows(ip)}, {p[2] : p \in rows(ip)})] :
        ip \in {x \in IpAddresses : rows(x) # {}}}

find_shared_infrastructure(inf, store, accts, entity_type) ==
    IF entity_type = "device" THEN shared_devices(inf)
    ELSE shared_ips(inf, store, accts)

\* FraudDetectionService.detect_shared_infrastructure
detect_shared_infrastructure ==
    /\ ret' = [op |-> "detect_shared_infrastructure",
               result |->
                 [shared_devices |->
                      find_shared_infrastructure(infra, txns, accounts, "device"),
                  shared_ips |->
                      find_shared_infrastructure(infra, txns, accounts, "ip")]]
    /\ UNCHANGED <<args, customers, alerts, conn, members, sweep, latest, infra, now, accounts, txns, rings,
                   links>>

\* FraudInvestigationService.get_shared_infrastructure_details
get_shared_infrastructure_details(infrastructure_type) ==
    /\ ret' = [op |-> "get_shared_infrastructure_details",
               infrastructure_type |-> infrastructure_type,
               result |->
                 {[infrastructure_id |-> item.infrastructure_id,
                   shared_by_count |-> BagCardinality(item.ids),
                   entity_ids |-> item.ids] :
                  item \in find_shared_infrastructure(infra, txns, accounts,
                                                     infrastructure_type)}]
    /\ UNCHANGED <<args, customers, alerts, conn, members, sweep, latest, infra, now, accounts, txns, rings,
                   links>>

GetSharedInfrastructureDetails ==
    \E infrastructure_type \in {"device", "ip"} :
        get_shared_infrastructure_details(infrastructure_type)

\* the transactions of the runs: id, from, to
InfraTransfers == {<<1, "a1", "a2">>, <<2, "a1", "a2">>, <<3, "a2", "a3">>}

InitInfra ==
    /\ args = <<>>
    /\ sweep = <<>>
    /\ latest = <<>>
    /\ customers = NoCustomers
    /\ alerts = {}
    /\ conn = Connected
    /\ members = {}
    /\ now = StartTime
    /\ rings = <<>>
    /\ links = {}
    /\ ret = [op |-> "init"]
    /\ accounts = [a \in {"a1", "a2", "a3"} |-> OldAccount]
    /\ \E used \in SUBSET (CustomerIds \X DeviceIds),
          saved \in SUBSET InfraTransfers :
          /\ txns = {Transaction(tr[1], 100, now - 10, FALSE, tr[2], tr[3],
                                  accounts) : tr \in saved}
          /\ infra = [used_device |-> used,
                      from_ip |-> {<<tr[1], "10.0.0.1">> : tr \in saved}]

NextInfra ==
    \/ detect_shared_infrastructure
    \/ GetSharedInfrastructureDetails

SpecInfra == InitInfra /\ [][NextInfra]_vars

(***************************************************************************)
(* Shared-infrastructure properties                                        *)
(***************************************************************************)
\* the customers that used device d
DeviceUsers(d) == {c \in CustomerIds : <<c, d>> \in infra.used_device}

\* the accounts on the transactions sent from address ip
IpUsers(ip) ==
    UNION {AccountsOf(txns, r[1]) : r \in {x \in infra.from_ip : x[2] = ip}}

\* C14: each device (IP) used by at least 2 distinct customers (accounts)
\* yields exactly one cluster in which every participant appears exactly
\* once, so shared_by_count is the number of distinct participants; a device
\* or IP with fewer than 2 participants yields no cluster.
C14_OneClusterEachParticipantOnce ==
    ret.op = "get_shared_infrastructure_details" =>
        LET users(x) == IF ret.infrastructure_type = "device"
                        THEN DeviceUsers(x) ELSE IpUsers(x)
            all == IF ret.infrastructure_type = "device"
                   THEN DeviceIds ELSE IpAddresses
            clusters(x) == {item \in ret.result : item.infrastructure_id = x}
        IN \A x \in all :
              IF Cardinality(users(x)) >= 2
              THEN /\ Cardinality(clusters(x)) = 1
                   /\ \A item \in clusters(x) :
                         /\ item.entity_ids = SetToBag(users(x))
                         /\ item.shared_by_count = Cardinality(users(x))
              ELSE clusters(x) = {}

(***************************************************************************)
(* AlertService.create_alert_from_pattern                                  *)
(***************************************************************************)
ConfidenceUnits == 100     \* confidence: float ge=0.0 le=1.0, in hundredths

RiskLevel == {"low", "medium", "high", "critical"}

\* _determine_severity, with the critical test one hundredth too high
determine_severity_above_ninety(confidence) ==
    IF confidence > 90 THEN "critical"
    ELSE IF confidence >= 70 THEN "high"
    ELSE IF confidence >= 50 THEN "medium"
    ELSE "low"

\* _determine_severity
determine_severity(confidence) ==
    IF confidence >= 90 THEN "critical"
    ELSE IF confidence >= 70 THEN "high"
    ELSE IF confidence >= 50 THEN "medium"
    ELSE "low"

\* Alert(...) with the defaults of the fields the call does not give
Alert(alert_type, severity, confidence, related_entities) ==
    [alert_type |-> alert_type, severity |-> severity,
     resolved_at |-> None, is_resolved |-> FALSE, assigned_to |-> None,
     notes |-> <<"Detected", alert_type, "Confidence:", confidence>>,
     related_entities |-> related_entities]

create_alert_from_pattern(pattern, related_entities) ==
    /\ ret' = [op |-> "create_alert_from_pattern", pattern |-> pattern,
               result |-> Alert(pattern.pattern_type,
                                determine_severity(pattern.confidence),
                                pattern.confidence, related_entities)]
    /\ UNCHANGED <<args, customers, alerts, conn, members, sweep, latest, infra, now, accounts, txns, rings,
                   links>>

CreateAlertFromPattern ==
    \E pattern_type \in {"circular_flow", "fan_out", "fan_in"},
       confidence \in 0..ConfidenceUnits,
       related_entities \in {<<>>, <<"a1", "a2">>} :
       create_alert_from_pattern(
           [pattern_type |-> pattern_type, confidence |-> confidence],
           related_entities)

InitAlert ==
    /\ args = <<>>
    /\ sweep = <<>>
    /\ latest = <<>>
    /\ customers = NoCustomers
    /\ alerts = {}
    /\ conn = Connected
    /\ members = {}
    /\ infra = NoInfra
    /\ now = StartTime
    /\ accounts = [a \in {"a1", "a2"} |-> OldAccount]
    /\ txns = {}
    /\ rings = <<>>
    /\ links = {}
    /\ ret = [op |-> "init"]

NextAlert == CreateAlertFromPattern

SpecAlert == InitAlert /\ [][NextAlert]_vars

(***************************************************************************)
(* Alert properties                                                        *)
(***************************************************************************)
\* C15: the alert's severity is CRITICAL if the confidence c >= 0.9,
\* otherwise HIGH if c >= 0.7, otherwise MEDIUM if c >= 0.5, otherwise LOW,
\* for every c in [0, 1]; the alert is unresolved: is_resolved is false and
\* resolved_at is absent.
C15_SeverityFromConfidence ==
    ret.op = "create_alert_from_pattern" =>
        LET c == ret.pattern.confidence
            alert == ret.result
        IN /\ (c >= 90) <=> (alert.severity = "critical")
           /\ (c >= 70 /\ c < 90) <=> (alert.severity = "high")
           /\ (c >= 50 /\ c < 70) <=> (alert.severity = "medium")
           /\ (c < 50) <=> (alert.severity = "low")
           /\ alert.is_resolved = FALSE
           /\ alert.resolved_at = None

\* an alert was made from a pattern of confidence exactly 0.9
C15_Witness ==
    /\ ret.op = "create_alert_from_pattern"
    /\ ret.pattern.confidence = 90
    /\ ret.result.severity = "critical"
    /\ ~ret.result.is_resolved

(***************************************************************************)
(* Scoring calls over a store that holds scores, a ring and transactions,  *)
(* with the clock advancing between calls                                  *)
(***************************************************************************)
\* datetime.now(timezone.utc) reads a later time on a later call
Tick ==
    /\ now < StartTime + MaxTicks
    /\ now' = now + 1
    /\ UNCHANGED <<args, customers, alerts, conn, members, sweep, latest, infra, accounts, txns, rings, links,
                   ret>>

\* a transaction saved between two scoring calls
SaveScoringTransaction ==
    /\ Cardinality({t \in txns : t.transaction_id \notin BulkIds}) < MaxSaves
    /\ \E flagged \in BOOLEAN :
          save_transaction(
              SweepLimit + 1
                  + Cardinality({t \in txns : t.transaction_id \notin BulkIds}),
              100, now, flagged, "a1", "a2")
    /\ UNCHANGED <<args, customers, alerts, conn, members, sweep, latest, infra, now, accounts, rings, links>>

\* a1 is one minute short of 30 days old or old, and has 0 or 11
\* transactions 59 minutes back; every account has a stored score, a ring
\* with a linked account is stored
InitScoring ==
    /\ sweep = <<>>
    /\ latest = <<>>
    /\ customers = NoCustomers
    /\ alerts = {}
    /\ conn = Connected
    /\ members = {}
    /\ infra = NoInfra
    /\ now = StartTime
    /\ \E customer \in {c \in Customers : c.customer_since = StartTime},
          n \in {0, 6} :
          args = [customer |-> customer, accounts |-> AccountList(0, n, 0)]
    /\ \E status \in AccountStatus,
          ago \in {30 * MinutesPerDay - 1, 100 * MinutesPerDay} :
          accounts =
              [a \in {"a1", "a2"} |->
                  IF a = "a1"
                  THEN [status |-> status, created_date |-> now - ago,
                        risk_score |-> 101]
                  ELSE [status |-> "active", created_date |-> 0,
                        risk_score |-> 101]]
    /\ \E nHour \in {0, 11} :
          txns = Batch(0, nHour, 100, now - HourMinutes + 1, TRUE, "a1", "a2",
                       accounts)
    /\ rings = (1 :> FraudRing(1, 8, "circular_flow", 1))
    /\ links = {<<1, "a1", "participant">>}
    /\ ret = [op |-> "init"]

NextScoring ==
    \/ CalculateAccountRisk
    \/ CalculateCustomerRisk
    \/ Tick
    \/ SaveScoringTransaction

SpecScoring == InitScoring /\ [][NextScoring]_vars

(***************************************************************************)
(* Scoring properties                                                      *)
(***************************************************************************)
\* C16: calculate_account_risk and calculate_customer_risk perform no write:
\* the step that returns from either leaves every account (its risk_score
\* too), every ring and link, every transaction and the customer and
\* accounts passed in as they were.
C16_ScoringWritesNothing ==
    [][(ret' # ret /\ ret'.op \in {"calculate_account_risk",
                                    "calculate_customer_risk"})
          => /\ accounts' = accounts
             /\ txns' = txns
             /\ rings' = rings
             /\ links' = links
             /\ infra' = infra
             /\ customers' = customers
             /\ alerts' = alerts
             /\ args' = args
             /\ ret'.op = "calculate_customer_risk"
                   => ret'.customer = args.customer]_vars

\* calculate_account_risk returned a score different from the stored one,
\* which is still stored, next to a ring and transactions
C16_Witness ==
    /\ ret.op = "calculate_account_risk"
    /\ ret.result.score # accounts[ret.account_id].risk_score
    /\ accounts[ret.account_id].risk_score = 101
    /\ rings # <<>>
    /\ txns # {}

Contains(str, sub) ==
    \E i \in 1..(Len(str) - Len(sub) + 1) :
        SubSeq(str, i, i + Len(sub) - 1) = sub

\* str.split(): the runs of characters between blanks, from position i on,
\* cur the run read so far
RECURSIVE SplitFrom(_, _, _)
SplitFrom(str, i, cur) ==
    IF i > Len(str) THEN (IF cur = "" THEN <<>> ELSE <<cur>>)
    ELSE IF SubSeq(str, i, i) = " "
         THEN (IF cur = "" THEN <<>> ELSE <<cur>>) \o SplitFrom(str, i + 1, "")
         ELSE SplitFrom(str, i + 1, cur \o SubSeq(str, i, i))

split(str) == SplitFrom(str, 1, "")

\* str.split(':')[0]
BeforeColon(str) ==
    IF Contains(str, ":")
    THEN LET i == CHOOSE i \in 1..Len(str) :
                      /\ SubSeq(str, i, i) = ":"
                      /\ \A j \in 1..(i - 1) : SubSeq(str, j, j) # ":"
         IN SubSeq(str, 1, i - 1)
    ELSE str

\* str.replace(sub, ''), read from position i on
RECURSIVE RemoveFrom(_, _, _)
RemoveFrom(str, sub, i) ==
    IF i > Len(str) THEN ""
    ELSE IF /\ i + Len(sub) - 1 <= Len(str)
            /\ SubSeq(str, i, i + Len(sub) - 1) = sub
         THEN RemoveFrom(str, sub, i + Len(sub))
         ELSE SubSeq(str, i, i) \o RemoveFrom(str, sub, i + 1)

\* str.strip()
RECURSIVE strip(_)
strip(str) ==
    IF str = "" THEN ""
    ELSE IF SubSeq(str, 1, 1) = " " THEN strip(SubSeq(str, 2, Len(str)))
    ELSE IF SubSeq(str, Len(str), Len(str)) = " "
         THEN strip(SubSeq(str, 1, Len(str) - 1))
    ELSE str

UuidLength == 36           \* len(part) == 36

\* the parts of the 'Account' evidence lines that pass the "UUID format" test
evidence_account_ids(patterns) ==
    UNION {UNION {{parts[k] : k \in {j \in DOMAIN parts :
                                        /\ Len(parts[j]) = UuidLength
                                        /\ Contains(parts[j], "-")}} :
                  parts \in {split(patterns[i].evidence[e]) :
                                e \in {x \in DOMAIN patterns[i].evidence :
                                          Contains(patterns[i].evidence[x],
                                                   "Account")}}} :
           i \in DOMAIN patterns}

\* _get_account_details: one entry per id that account_repo.find_by_id finds
get_account_details(accts, account_ids) ==
    {a \in account_ids : Account_find_by_id(accts, a) # None}

GetAccountsMinimum == 5    \* min_recipients=5, min_senders=5

get_fan_out_accounts ==
    \E results \in detect_fan_out_pattern(txns, GetAccountsMinimum,
                                           FanTimeframeHours, now) :
        /\ ret' = [op |-> "get_fan_out_accounts", rows |-> results,
                   result |-> get_account_details(accounts,
                       evidence_account_ids(fan_out_patterns(results)))]
        /\ UNCHANGED <<args, customers, alerts, conn, members, sweep, latest, infra, now, accounts, txns, rings, links>>

get_fan_in_accounts ==
    \E results \in detect_fan_in_pattern(txns, GetAccountsMinimum,
                                          FanTimeframeHours, now) :
        /\ ret' = [op |-> "get_fan_in_accounts", rows |-> results,
                   result |-> get_account_details(accounts,
                       evidence_account_ids(fan_in_patterns(results)))]
        /\ UNCHANGED <<args, customers, alerts, conn, members, sweep, latest, infra, now, accounts, txns, rings, links>>

\* the evidence line of detect_circular_flow for one <<id, amount>> entry
circular_evidence_str(e) ==
    "Transaction " \o ToString(e[1]) \o ": " \o ToString(e[2])

\* Neo4jTransactionRepository.find_by_id on the id as text: the transactions
\* it can return, none if the id is not stored
Transaction_find_by_id(store, txn_id) ==
    {t \in store : ToString(t.transaction_id) = txn_id}

\* the transaction ids read out of the evidence lines of the patterns
evidence_txn_ids(patterns) ==
    UNION {{strip(RemoveFrom(BeforeColon(circular_evidence_str(p.evidence[e])),
                             "Transaction ", 1)) :
               e \in {x \in DOMAIN p.evidence :
                         Contains(circular_evidence_str(p.evidence[x]),
                                  "Transaction")}} :
           p \in patterns}

get_circular_flow_accounts ==
    \E cycles \in find_circular_transactions(txns, 3, MaxCycleLength) :
        LET patterns == {circular_pattern(c) : c \in cycles}
            found == UNION {Transaction_find_by_id(txns, id) :
                               id \in evidence_txn_ids(patterns)}
            account_ids ==
                ({t.from_account_id : t \in found}
                    \cup {t.to_account_id : t \in found}) \ {NoAccountId}
        IN /\ ret' = [op |-> "get_circular_flow_accounts", cycles |-> cycles,
                      result |-> get_account_details(accounts, account_ids)]
           /\ UNCHANGED <<args, customers, alerts, conn, members, sweep, latest, infra, now, accounts, txns, rings, links>>

\* a fan store around a hub whose id has one of the three formats, with or
\* without a flagged cycle hub -> r1 -> r2 -> hub
InitEvidence ==
    /\ args = <<>>
    /\ sweep = <<>>
    /\ latest = <<>>
    /\ customers = NoCustomers
    /\ alerts = {}
    /\ conn = Connected
    /\ members = {}
    /\ infra = NoInfra
    /\ now = StartTime
    /\ rings = <<>>
    /\ links = {}
    /\ ret = [op |-> "init"]
    /\ \E hub1 \in HubIds, dir \in {"out", "in"}, n1 \in {0, 4, 5, 6},
          n2 \in {0, 5}, ghost \in BOOLEAN, cycle \in BOOLEAN,
          flagged \in BOOLEAN :
          /\ accounts = [a \in {hub1, SecondHub}
                                  \cup {Counterparty(i) : i \in 1..(2 * MaxFan + 2)}
                              |-> OldAccount]
          /\ txns = FanStore(dir, hub1, n1, 0, FALSE, ghost, n2, 10, now,
                             accounts)
                    \cup (IF cycle
                          THEN {Transaction(80, 100, now - 5, TRUE, hub1,
                                            Counterparty(1), accounts),
                                Transaction(81, 100, now - 5, TRUE,
                                            Counterparty(1), Counterparty(2),
                                            accounts),
                                Transaction(82, 100, now - 5, flagged,
                                            Counterparty(2), hub1, accounts)}
                          ELSE {})

NextEvidence ==
    \/ get_fan_out_accounts
    \/ get_fan_in_accounts
    \/ get_circular_flow_accounts

SpecEvidence == InitEvidence /\ [][NextEvidence]_vars

(***************************************************************************)
(* Evidence properties                                                     *)
(***************************************************************************)
\* C19: every pattern's evidence resolves to its participant accounts
\* whatever the format of the account ids: each existing account for which
\* detect_fan_out (detect_fan_in) returns a pattern is in the result of
\* get_fan_out_accounts (get_fan_in_accounts), and each existing account on a
\* detected cycle is in the result of get_circular_flow_accounts.
C19_EvidenceResolvesToAccounts ==
    /\ ret.op \in {"get_fan_out_accounts", "get_fan_in_accounts"} =>
          \A i \in DOMAIN ret.rows :
              ret.rows[i].account_id \in DOMAIN accounts
                  => ret.rows[i].account_id \in ret.result
    /\ ret.op = "get_circular_flow_accounts" =>
          \A c \in ret.cycles : \A i \in DOMAIN c :
              /\ c[i].from_account_id \in ret.result
              /\ c[i].to_account_id \in ret.result

(***************************************************************************)
(* The graph as the path queries see it                                    *)
(***************************************************************************)
\* a node: its label and its key
Node(label, id) == <<label, id>>

GraphNodes ==
    {Node("Account", a) : a \in DOMAIN accounts}
    \cup {Node("Customer", c) : c \in DOMAIN customers}
    \cup {Node("Transaction", t.transaction_id) : t \in txns}
    \cup {Node("FraudRing", r) : r \in DOMAIN rings}

\* the relationships, without their direction: OWNS, DEBITED_FROM,
\* CREDITED_TO, USED_IN, MEMBER_OF
GraphEdges ==
    UNION {{{Node("Customer", c), Node("Account", a)} :
               a \in customers[c].owns \cap DOMAIN accounts} :
           c \in DOMAIN customers}
    \cup {{Node("Transaction", t.transaction_id),
           Node("Account", t.from_account_id)} :
             t \in {x \in txns : x.from_account_id # NoAccountId}}
    \cup {{Node("Transaction", t.transaction_id),
           Node("Account", t.to_account_id)} :
             t \in {x \in txns : x.to_account_id # NoAccountId}}
    \cup {{Node("Account", l[2]), Node("FraudRing", l[1])} : l \in links}
    \cup {{Node("Customer", m[2]), Node("FraudRing", m[1])} :
             m \in {x \in members : x[2] \in DOMAIN customers}}

\* the nodes one relationship of E away from a node of S
Neighbours(E, S) == UNION {UNION {e \ {m} : m \in S \cap e} : e \in E}

\* the nodes at the other end of a path of 1..k relationships of E from S
RECURSIVE Reached(_, _, _)
Reached(E, S, k) ==
    IF k = 0 \/ S = {} THEN {}
    ELSE LET next == Neighbours(E, S)
         IN next \cup Reached(E, next, k - 1)

\* n.account_id = id / n.customer_id = id: a node without the property
\* gives null, which WHERE does not let through
account_id_is(n, id) == n = Node("Account", id)
customer_id_is(n, id) == n = Node("Customer", id)

(***************************************************************************)
(* Neo4jGraphQueryRepository.calculate_connection_path                     *)
(***************************************************************************)
PathFound == [path |-> "found"]
StoreError == [error |-> "store"]

\* WHERE a OR b AND c OR d, AND binding tighter than OR
connection_where(f, t, from_entity_id, to_entity_id) ==
    \/ account_id_is(f, from_entity_id)
    \/ /\ customer_id_is(f, from_entity_id)
       /\ account_id_is(t, to_entity_id)
    \/ customer_id_is(t, to_entity_id)

\* the outcomes of the call: shortestPath over the pairs (from, to) the WHERE
\* lets through; a pair with from = to makes the server raise, or is passed
\* over, by its configuration; result.single() keeps the first record
calculate_connection_path(from_entity_id, to_entity_id, max_depth) ==
    LET nodes == GraphNodes
        edges == GraphEdges
        ends(f) == {t \in nodes : connection_where(f, t, from_entity_id,
                                                   to_entity_id)}
        starts == {f \in nodes : ends(f) # {}}
        rows == {f \in starts :
                    (Reached(edges, {f}, max_depth) \ {f}) \cap ends(f) # {}}
    IN {IF rows # {} THEN PathFound ELSE None}
       \cup (IF \E f \in starts : f \in ends(f) THEN {StoreError} ELSE {})

MaxPathDepth == 5          \* max_depth=5

\* FraudInvestigationService.find_connection_path
find_connection_path(from_entity_id, to_entity_id) ==
    /\ \E result \in calculate_connection_path(from_entity_id, to_entity_id,
                                               MaxPathDepth) :
          ret' = [op |-> "find_connection_path", from |-> from_entity_id,
                  to |-> to_entity_id,
                  queries |-> <<"calculate_connection_path">>,
                  result |-> result]
    /\ UNCHANGED <<args, customers, alerts, conn, members, sweep, latest, infra, now, accounts, txns, rings, links>>

(***************************************************************************)
(* Repository reads used by the investigation facade                       *)
(***************************************************************************)
\* a Customer node with its OWNS relationships
Customer(kyc_status, customer_since, email, owns) ==
    [kyc_status |-> kyc_status, customer_since |-> customer_since,
     email |-> email, owns |-> owns]

\* Neo4jCustomerRepository.find_by_id
Customer_find_by_id(store, customer_id) ==
    IF customer_id \in DOMAIN store THEN store[customer_id] ELSE None

UpperCase == "ABCDEFGHIJKLMNOPQRSTUVWXYZ"
LowerCase == "abcdefghijklmnopqrstuvwxyz"

\* str.lower()
RECURSIVE lower(_)
lower(str) ==
    IF str = "" THEN ""
    ELSE LET ch == SubSeq(str, 1, 1)
             at == {i \in 1..Len(UpperCase) : SubSeq(UpperCase, i, i) = ch}
         IN (IF at = {} THEN ch
             ELSE LET i == CHOOSE i \in at : TRUE
                  IN SubSeq(LowerCase, i, i))
            \o lower(SubSeq(str, 2, Len(str)))

\* Neo4jCustomerRepository.find_by_email: the ids of the customers found
find_by_email(store, email) ==
    {c \in DOMAIN store : store[c].email = lower(email)}

\* Account.account_number of the account with this id
account_number(account_id) == "N-" \o account_id

\* Neo4jAccountRepository.find_by_account_number: the ids found
find_by_account_number(store, number) ==
    {a \in DOMAIN store : account_number(a) = number}

\* Neo4jAccountRepository.find_by_customer: the ids of the accounts the
\* customer OWNS
find_by_customer(store, accts, customer_id) ==
    IF customer_id \in DOMAIN store
    THEN store[customer_id].owns \cap DOMAIN accts
    ELSE {}

\* Neo4jCustomerRepository.find_connected_customers: the other customers at
\* the end of a path of 1..depth relationships
find_connected_customers(customer_id, depth) ==
    {c \in DOMAIN customers :
        /\ c # customer_id
        /\ customer_id \in DOMAIN customers
        /\ Node("Customer", c) \in Reached(GraphEdges,
                                           {Node("Customer", customer_id)},
                                           depth)}

\* Neo4jAccountRepository.find_high_risk_accounts: the lists the query can
\* give, ORDER BY a.risk_score DESC
RECURSIVE OrderedByRiskDesc(_, _)
OrderedByRiskDesc(accts, ids) ==
    IF ids = {} THEN {<<>>}
    ELSE UNION {{<<a>> \o s : s \in OrderedByRiskDesc(accts, ids \ {a})} :
                a \in {x \in ids : \A y \in ids :
                          accts[x].risk_score >= accts[y].risk_score}}

find_high_risk_accounts(accts, threshold) ==
    OrderedByRiskDesc(accts,
                      {a \in DOMAIN accts : accts[a].risk_score >= threshold})

\* the statuses of WHERE r.status IN ['investigating', 'confirmed']
ActiveStatuses == {"investigating", "confirmed"}

\* Neo4jFraudRingRepository.find_active_rings: the ids of the rings returned
find_active_rings_every_status(store) == DOMAIN store

find_active_rings(store) ==
    {id \in DOMAIN store : store[id].status \in ActiveStatuses}

\* Neo4jAlertRepository.find_unresolved_alerts
find_unresolved_alerts(store) == {a \in store : a.is_resolved = FALSE}

\* Neo4jGraphQueryRepository.get_entity_neighborhood: the query's rows are
\* dropped
get_entity_neighborhood(entity_id, entity_type, depth) ==
    [nodes |-> <<>>, edges |-> <<>>]

(***************************************************************************)
(* FraudInvestigationService: the facade's reads                           *)
(*                                                                         *)
(* Every call records in `queries` the repository calls it made, in order. *)
(***************************************************************************)
DashboardLimit == 1000         \* find_flagged_transactions(limit=1000)
DashboardThreshold == 140      \* threshold=70.0, in half points
HighRiskListThreshold == 120   \* threshold=60.0, in half points
MonthMinutes == 43200          \* timedelta(days=30)
DayMinutes == 1440             \* minutes=1440
ShownTransactions == 10        \* recent_transactions[:10]
ShownCustomers == 5            \* connected_customers[:5]
NeighbourhoodDepth == 2        \* depth=2

\* get_risk_category, on half points
get_risk_category(risk_score) ==
    IF risk_score >= 160 THEN "CRITICAL"
    ELSE IF risk_score >= 120 THEN "HIGH"
    ELSE IF risk_score >= 80 THEN "MEDIUM"
    ELSE "LOW"

\* list[:limit] of Python: a negative limit counts from the end
Slice(list, limit) ==
    IF limit >= 0 THEN SubSeq(list, 1, Min(limit, Len(list)))
    ELSE SubSeq(list, 1, Max(0, Len(list) + limit))

\* the k newest of a set of transactions, as ORDER BY t.timestamp DESC and a
\* cut after k give them: the sets possible when timestamps tie
Newest(S, k) ==
    IF Cardinality(S) <= k THEN {S}
    ELSE {X \in SUBSET S :
             /\ Cardinality(X) = k
             /\ \A x \in X, y \in S \ X : x.timestamp >= y.timestamp}

get_dashboard_summary ==
    /\ \E flagged_transactions \in
              find_flagged_transactions(txns, DashboardLimit) :
          LET high_risk_accounts ==
                  {a \in DOMAIN accounts :
                      accounts[a].risk_score >= DashboardThreshold}
              active_rings == find_active_rings(rings)
              unresolved_alerts == find_unresolved_alerts(alerts)
          IN ret' = [op |-> "get_dashboard_summary",
                     queries |-> <<"find_flagged_transactions",
                                   "find_high_risk_accounts",
                                   "find_active_rings",
                                   "find_unresolved_alerts">>,
                     result |->
                       [flagged_transactions_count |->
                            Cardinality(flagged_transactions),
                        high_risk_accounts_count |->
                            Cardinality(high_risk_accounts),
                        active_fraud_rings |-> Cardinality(active_rings),
                        unresolved_alerts |-> Cardinality(unresolved_alerts),
                        critical_alerts |->
                            Cardinality({a \in unresolved_alerts :
                                            a.severity = "critical"}),
                        timestamp |-> now]]
    /\ UNCHANGED <<args, customers, alerts, conn, members, sweep, latest, infra, now, accounts, txns, rings, links>>

\* get_active_fraud_rings: one dictionary per active ring
get_active_fraud_rings ==
    /\ ret' = [op |-> "get_active_fraud_rings",
               queries |-> <<"find_active_rings">>,
               result |-> {rings[id] : id \in find_active_rings(rings)}]
    /\ UNCHANGED <<args, customers, alerts, conn, members, sweep, latest, infra, now, accounts, txns, rings, links>>

\* the return of investigate_account when find_by_id finds no account
account_not_found_after_scoring ==
    [queries |-> <<"Account.find_by_id", "find_by_account",
                   "count_transactions_in_timeframe", "find_by_account">>,
     result |-> [error |-> "Account not found"]]

account_not_found ==
    [queries |-> <<"Account.find_by_id">>,
     result |-> [error |-> "Account not found"]]

\* investigate_account: the outcomes possible, each what the call returns and
\* the repository calls it makes
investigate_account(accts, store, account_id, t) ==
    LET account == Account_find_by_id(accts, account_id)
    IN IF account = None
       THEN {account_not_found}
       ELSE LET recent_transactions ==
                    find_by_account(store, account_id, t - MonthMinutes)
            IN {[queries |-> <<"Account.find_by_id", "find_by_account",
                               "count_transactions_in_timeframe",
                               "find_by_account",
                               "count_transactions_in_timeframe",
                               "count_transactions_in_timeframe",
                               "get_entity_neighborhood">>,
                 result |->
                   [account |-> account,
                    risk_score |->
                        calculate_account_risk(account_id, account, store, t),
                    transaction_count_30d |->
                        Cardinality(recent_transactions),
                    flagged_transactions |->
                        Cardinality({x \in recent_transactions :
                                        x.is_flagged}),
                    velocity |->
                        [one_hour |-> count_transactions_in_timeframe(
                                          store, account_id, HourMinutes, t),
                         day |-> count_transactions_in_timeframe(
                                     store, account_id, DayMinutes, t)],
                    recent_transactions |-> shown,
                    neighborhood |->
                        get_entity_neighborhood(account_id, "account",
                                                NeighbourhoodDepth)]] :
                shown \in Newest(recent_transactions, ShownTransactions)}

\* a set as a list, in the order the store happens to give
RECURSIVE AsList(_)
AsList(S) ==
    IF S = {} THEN <<>>
    ELSE LET x == CHOOSE x \in S : TRUE IN <<x>> \o AsList(S \ {x})

\* the return of investigate_customer when find_by_id finds no customer
customer_not_found ==
    [queries |-> <<"Customer.find_by_id">>,
     result |-> [error |-> "Customer not found"]]

\* investigate_customer: the outcomes possible, each what the call returns
\* and the repository calls it makes
investigate_customer(custs, accts, customer_id, t) ==
    LET customer == Customer_find_by_id(custs, customer_id)
    IN IF customer = None
       THEN {customer_not_found}
       ELSE LET owned == AsList(find_by_customer(custs, accts, customer_id))
                list == [i \in DOMAIN owned |-> accts[owned[i]]]
                connected_customers ==
                    find_connected_customers(customer_id, NeighbourhoodDepth)
            IN {[queries |-> <<"Customer.find_by_id", "find_by_customer",
                               "find_connected_customers">>,
                 result |->
                   [customer |-> customer,
                    risk_score |-> calculate_customer_risk(customer, list, t),
                    accounts |-> {owned[i] : i \in DOMAIN owned},
                    account_count |-> Len(list),
                    connected_customers_count |->
                        Cardinality(connected_customers),
                    connected_customers |-> shown]] :
                shown \in
                    IF Cardinality(connected_customers) <= ShownCustomers
                    THEN {connected_customers}
                    ELSE {X \in SUBSET connected_customers :
                             Cardinality(X) = ShownCustomers}}

\* get_high_risk_accounts(limit)
get_high_risk_accounts(limit) ==
    /\ \E found \in find_high_risk_accounts(accounts, HighRiskListThreshold) :
          LET kept == Slice(found, limit)
              recent(a) == find_by_account(txns, a, now - WeekMinutes)
          IN ret' = [op |-> "get_high_risk_accounts", limit |-> limit,
                     queries |-> <<"find_high_risk_accounts">>
                                    \o [i \in DOMAIN kept |-> "find_by_account"],
                     result |->
                       [i \in DOMAIN kept |->
                           [account_id |-> kept[i],
                            risk_score |-> accounts[kept[i]].risk_score,
                            risk_category |->
                                get_risk_category(accounts[kept[i]].risk_score),
                            status |-> accounts[kept[i]].status,
                            recent_transaction_count |->
                                Cardinality(recent(kept[i])),
                            flagged_count |->
                                Cardinality({x \in recent(kept[i]) :
                                                x.is_flagged})]]]
    /\ UNCHANGED <<args, customers, alerts, conn, members, sweep, latest, infra, now, accounts, txns, rings, links>>

\* get_flagged_transactions(limit): LIMIT takes 0 and gives no row; the
\* server refuses a negative LIMIT when it runs the query
get_flagged_transactions(limit) ==
    /\ \E transactions \in
              (IF limit < 0 THEN {StoreError}
               ELSE IF limit = 0 THEN {{}}
               ELSE find_flagged_transactions(txns, limit)) :
          ret' = [op |-> "get_flagged_transactions", limit |-> limit,
                  queries |-> <<"find_flagged_transactions">>,
                  result |-> transactions]
    /\ UNCHANGED <<args, customers, alerts, conn, members, sweep, latest, infra, now, accounts, txns, rings, links>>

\* search_entities(query, entity_type): the ids found
search_entities(query, entity_type) ==
    /\ LET by_number == find_by_account_number(accounts, query)
           by_email == find_by_email(customers, query)
           out ==
             IF entity_type = "account"
             THEN IF by_number # {}
                  THEN [queries |-> <<"find_by_account_number">>,
                        result |-> <<CHOOSE a \in by_number : TRUE>>]
                  ELSE IF Account_find_by_id(accounts, query) # None
                  THEN [queries |-> <<"find_by_account_number",
                                      "Account.find_by_id">>,
                        result |-> <<query>>]
                  ELSE [queries |-> <<"find_by_account_number",
                                      "Account.find_by_id">>,
                        result |-> <<>>]
             ELSE IF entity_type = "customer"
             THEN IF by_email # {}
                  THEN [queries |-> <<"find_by_email">>,
                        result |-> <<CHOOSE c \in by_email : TRUE>>]
                  ELSE IF Customer_find_by_id(customers, query) # None
                  THEN [queries |-> <<"find_by_email",
                                      "Customer.find_by_id">>,
                        result |-> <<query>>]
                  ELSE [queries |-> <<"find_by_email",
                                      "Customer.find_by_id">>,
                        result |-> <<>>]
             ELSE [queries |-> <<>>, result |-> <<>>]
       IN ret' = [op |-> "search_entities", query |-> query,
                  entity_type |-> entity_type, queries |-> out.queries,
                  result |-> out.result]
    /\ UNCHANGED <<args, customers, alerts, conn, members, sweep, latest, infra, now, accounts, txns, rings, links>>

(***************************************************************************)
(* FraudInvestigationService.detect_fraud_patterns as one call, and        *)
(* create_investigation_report                                             *)
(***************************************************************************)
\* {'pattern_type', 'confidence', 'evidence_count'} of one pattern
pattern_summary(p) ==
    [pattern_type |-> p.pattern_type, confidence |-> p.confidence,
     evidence_count |-> Len(p.evidence)]

\* lines 206-221: the loop over account_ids, st what it has done so far
RECURSIVE risk_scoring_loop(_, _, _, _)
risk_scoring_loop(ids, store, t, st) ==
    IF ids = <<>> THEN st
    ELSE LET account_id == Head(ids)
             account == Account_find_by_id(st.accounts, account_id)
         IN IF account # None
            THEN LET risk_score ==
                         calculate_account_risk(account_id, account, store, t)
                 IN risk_scoring_loop(Tail(ids), store, t,
                        [accounts |->
                             update_risk_score(st.accounts, account_id,
                                               risk_score.score),
                         updated_accounts |->
                             Append(st.updated_accounts,
                                    [account_id |-> account_id,
                                     risk_score |-> risk_score.score]),
                         high_risk_count |->
                             IF risk_score.score >= HighRiskScore
                             THEN st.high_risk_count + 1
                             ELSE st.high_risk_count,
                         queries |->
                             st.queries
                                 \o <<"Account.find_by_id",
                                      "count_transactions_in_timeframe",
                                      "find_by_account",
                                      "update_risk_score">>])
            ELSE risk_scoring_loop(Tail(ids), store, t,
                     [st EXCEPT !.queries = Append(@, "Account.find_by_id")])

\* detect_fraud_patterns: the outcomes possible, each the accounts as the
\* call leaves them, what it returns and the repository calls it makes
detect_fraud_patterns(accts, store, inf, t) ==
    {LET account_ids ==
             ({x.from_account_id : x \in flagged_transactions}
                  \cup {x.to_account_id : x \in flagged_transactions})
             \ {NoAccountId}
         cycle_list == AsList(cycles)
         mules == detect_mule_accounts_query(store, accts, MinThroughput,
                                             MaxHoldTimeHours)
         done == risk_scoring_loop(AsList(account_ids), store, t,
                     [accounts |-> accts, updated_accounts |-> <<>>,
                      high_risk_count |-> 0, queries |-> <<>>])
     IN [accounts |-> done.accounts,
         account_ids |-> account_ids,
         queries |-> <<"find_circular_transactions", "detect_fan_out_pattern",
                       "detect_fan_in_pattern", "detect_mule_accounts",
                       "find_shared_infrastructure",
                       "find_shared_infrastructure",
                       "find_flagged_transactions">> \o done.queries,
         result |->
           [circular_flow |->
                [i \in DOMAIN cycle_list |->
                    pattern_summary(circular_pattern(cycle_list[i]))],
            fan_out |-> [i \in DOMAIN fan_out |->
                            pattern_summary(fan_out_patterns(fan_out)[i])],
            fan_in |-> [i \in DOMAIN fan_in |->
                           pattern_summary(fan_in_patterns(fan_in)[i])],
            mule_accounts |->
                {[account_id |-> a, risk_score |-> accts[a].risk_score] :
                    a \in mules},
            shared_infrastructure |->
                [shared_devices_count |->
                     Cardinality(find_shared_infrastructure(inf, store, accts,
                                                            "device")),
                 shared_ips_count |->
                     Cardinality(find_shared_infrastructure(inf, store, accts,
                                                            "ip"))],
            risk_scoring |->
                [accounts_evaluated |-> Cardinality(account_ids),
                 accounts_updated |-> Len(done.updated_accounts),
                 high_risk_accounts |-> done.high_risk_count,
                 flagged_transactions_processed |->
                     Cardinality(flagged_transactions)]]] :
     cycles \in find_circular_transactions(store, 3, MaxCycleLength),
     fan_out \in detect_fan_out_pattern(store, GetAccountsMinimum,
                                        FanTimeframeHours, t),
     fan_in \in detect_fan_in_pattern(store, GetAccountsMinimum,
                                      FanTimeframeHours, t),
     flagged_transactions \in find_flagged_transactions(store, SweepLimit)}

\* create_investigation_report: the investigation asked for, if any, then
\* detect_fraud_patterns
create_investigation_report(entity_id, entity_type) ==
    /\ \E investigation \in
              (IF entity_type = "account"
               THEN investigate_account(accounts, txns, entity_id, now)
               ELSE IF entity_type = "customer"
               THEN investigate_customer(customers, accounts, entity_id, now)
               ELSE {[queries |-> <<>>, result |-> None]}),
          detected \in detect_fraud_patterns(accounts, txns, infra, now) :
          /\ accounts' = detected.accounts
          /\ ret' = [op |-> "create_investigation_report",
                     entity_id |-> entity_id, entity_type |-> entity_type,
                     account_ids |-> detected.account_ids,
                     queries |-> investigation.queries \o detected.queries,
                     result |->
                       [generated_at |-> now, entity_type |-> entity_type,
                        entity_id |-> entity_id,
                        investigation |-> investigation.result,
                        detected_patterns |-> detected.result]]
    /\ UNCHANGED <<args, customers, alerts, conn, members, sweep, latest, infra, now, txns, rings, links>>

(***************************************************************************)
(* The facade's calls                                                      *)
(***************************************************************************)
UnknownId == "zz"

InvestigateAccount ==
    \E account_id \in DOMAIN accounts \cup {UnknownId} :
        /\ \E out \in investigate_account(accounts, txns, account_id, now) :
              ret' = [op |-> "investigate_account", id |-> account_id,
                      queries |-> out.queries, result |-> out.result]
        /\ UNCHANGED <<args, customers, alerts, conn, members, sweep, latest, infra, now, accounts, txns, rings, links>>

InvestigateCustomer ==
    \E customer_id \in DOMAIN customers \cup {UnknownId} :
        /\ \E out \in investigate_customer(customers, accounts, customer_id,
                                            now) :
              ret' = [op |-> "investigate_customer", id |-> customer_id,
                      queries |-> out.queries, result |-> out.result]
        /\ UNCHANGED <<args, customers, alerts, conn, members, sweep, latest, infra, now, accounts, txns, rings, links>>

DetectFraudPatterns ==
    /\ \E detected \in detect_fraud_patterns(accounts, txns, infra, now) :
          /\ accounts' = detected.accounts
          /\ ret' = [op |-> "detect_fraud_patterns",
                     account_ids |-> detected.account_ids,
                     queries |-> detected.queries, result |-> detected.result]
    /\ UNCHANGED <<args, customers, alerts, conn, members, sweep, latest, infra, now, txns, rings, links>>

CreateInvestigationReport ==
    \E entity_id \in {"a1", "c1", UnknownId},
       entity_type \in {"account", "customer"} :
        create_investigation_report(entity_id, entity_type)

\* the limits the list calls are given
FacadeLimits == {-1, 0, 1, 50}

GetHighRiskAccounts == \E limit \in FacadeLimits : get_high_risk_accounts(limit)

GetFlaggedTransactions ==
    \E limit \in FacadeLimits : get_flagged_transactions(limit)

FindConnectionPath ==
    \E from_entity_id \in {"a1", "a3", "c1", UnknownId},
       to_entity_id \in {"a2", "c2", UnknownId} :
        find_connection_path(from_entity_id, to_entity_id)

SearchEntities ==
    \E query \in {"a1", "N-a1", "c1", "C1@Bank.org", UnknownId},
       entity_type \in {"account", "customer"} :
        search_entities(query, entity_type)

\* the repositories' find_by_id, called on their own
FindById ==
    /\ \E id \in {"a1", "c1", "1", UnknownId} :
          \/ ret' = [op |-> "find_by_id", repository |-> "account", id |-> id,
                     queries |-> <<"Account.find_by_id">>,
                     result |-> Account_find_by_id(accounts, id)]
          \/ ret' = [op |-> "find_by_id", repository |-> "customer",
                     id |-> id, queries |-> <<"Customer.find_by_id">>,
                     result |-> Customer_find_by_id(customers, id)]
          \/ LET found == Transaction_find_by_id(txns, id)
             IN ret' = [op |-> "find_by_id", repository |-> "transaction",
                        id |-> id, queries |-> <<"Transaction.find_by_id">>,
                        result |-> IF found = {} THEN None
                                   ELSE CHOOSE t \in found : TRUE]
    /\ UNCHANGED <<args, customers, alerts, conn, members, sweep, latest, infra, now, accounts, txns, rings, links>>

\* the Transaction entities given to save before a facade run, by store:
\* id, amount, minutes ago, flagged, from, to
FacadeStores == {"empty", "one", "missing", "cycle"}

FacadeEntities(store) ==
    IF store = "one" THEN {<<1, 100, 10, TRUE, "a1", "a2">>}
    ELSE IF store = "missing"
    THEN {<<1, 100, 10, TRUE, "a1", UnknownId>>,
          <<2, 100, 20, TRUE, "a3", "a1">>,
          <<3, 100, 30, FALSE, "a2", "a3">>}
    ELSE IF store = "cycle"
    THEN {<<1, 100, 10, TRUE, "a1", "a2">>, <<2, 100, 20, TRUE, "a2", "a3">>,
          <<3, 100, 30, TRUE, "a3", "a1">>}
    ELSE {}

\* the store after those saves
SavedTransactions(entities, t, accts) ==
    {Transaction(e[1], e[2], t - e[3], e[4], e[5], e[6], accts) :
        e \in entities}

\* the rings, alerts and customers of the facade runs
FacadeRings ==
    LET r1 == FraudRing(1, 8, "circular_flow", 0)
        r2 == [FraudRing(2, 5, "fan_out", 0) EXCEPT !.status = "resolved"]
    IN FraudRing_save(FraudRing_save(<<>>, r1), r2)

FacadeAlerts ==
    {Alert("fan_out", "critical", 90, <<"a1">>),
     Alert("fan_in", "high", 70, <<"a2">>),
     [Alert("fan_in", "critical", 95, <<"a3">>) EXCEPT !.is_resolved = TRUE]}

FacadeCustomers(joint) ==
    [c \in {"c1", "c2"} |->
        IF c = "c1"
        THEN Customer("verified", StartTime - 100 * MinutesPerDay,
                      "c1@bank.org", {"a1", "a2"})
        ELSE Customer("pending", StartTime - 10 * MinutesPerDay,
                      "c2@bank.org", IF joint THEN {"a2", "a9"} ELSE {})]

InitFacade ==
    /\ sweep = <<>>
    /\ latest = <<>>
    /\ conn = Connected
    /\ members = {}
    /\ infra = NoInfra
    /\ now = StartTime
    /\ links = {}
    /\ ret = [op |-> "init"]
    /\ \E risk_score \in {0, 130, 150}, recent \in BOOLEAN, joint \in BOOLEAN,
          store \in FacadeStores, found \in BOOLEAN :
          /\ accounts =
                 [a \in {"a1", "a2", "a3"} |->
                     IF a = "a1"
                     THEN [status |-> IF recent THEN "suspended" ELSE "active",
                           created_date |->
                               IF recent THEN now + 10 * MinutesPerDay ELSE 0,
                           risk_score |-> risk_score]
                     ELSE IF a = "a2"
                     THEN [OldAccount EXCEPT !.risk_score = 120]
                     ELSE OldAccount]
          /\ customers = FacadeCustomers(joint)
          /\ args = [saved |-> FacadeEntities(store)]
          /\ txns = SavedTransactions(FacadeEntities(store), now, accounts)
          /\ rings = IF found THEN FacadeRings ELSE <<>>
          /\ alerts = IF found THEN FacadeAlerts ELSE {}

NextFacade ==
    \/ get_dashboard_summary
    \/ InvestigateAccount
    \/ InvestigateCustomer
    \/ DetectFraudPatterns
    \/ CreateInvestigationReport
    \/ GetHighRiskAccounts
    \/ GetFlaggedTransactions
    \/ FindConnectionPath
    \/ SearchEntities
    \/ get_active_fraud_rings
    \/ FindById

SpecFacade == InitFacade /\ [][NextFacade]_vars

(***************************************************************************)
(* Facade properties                                                       *)
(***************************************************************************)
\* the facade's calls that only read
ReadCalls ==
    {"get_dashboard_summary", "investigate_account", "investigate_customer",
     "get_high_risk_accounts", "get_flagged_transactions",
     "find_connection_path"}

\* the accounts a flagged transaction is debited from or credited to
TouchedByFlagged ==
    {a \in DOMAIN accounts : \E t \in txns : t.is_flagged /\ Touches(t, a)}

\* C22: detect_fraud_patterns, and create_investigation_report which runs
\* it, change only the risk_score of accounts touched by a flagged
\* transaction; get_dashboard_summary, investigate_account,
\* investigate_customer, get_high_risk_accounts, get_flagged_transactions and
\* find_connection_path change no stored state.
C22_FacadeWritesOnlyRiskScores ==
    [][/\ ret'.op \in ReadCalls => accounts' = accounts
       /\ ret'.op \in ReadCalls \cup {"detect_fraud_patterns",
                                      "create_investigation_report"}
             => /\ customers' = customers
                /\ txns' = txns
                /\ rings' = rings
                /\ links' = links
                /\ members' = members
                /\ infra' = infra
                /\ alerts' = alerts
                /\ DOMAIN accounts' = DOMAIN accounts
                /\ \A a \in DOMAIN accounts :
                      accounts'[a] # accounts[a]
                         => /\ a \in TouchedByFlagged
                            /\ accounts'[a] =
                                  [accounts[a] EXCEPT !.risk_score =
                                      accounts'[a].risk_score]]_vars

\* a report on account a1 holds the account as it was read, with a
\* risk_score the sweep of the same call has since replaced, while an
\* account no flagged transaction touches kept its score
C22_Witness ==
    /\ ret.op = "create_investigation_report"
    /\ ret.entity_id = "a1" /\ ret.entity_type = "account"
    /\ ret.result.investigation.account.risk_score
          # accounts["a1"].risk_score
    /\ accounts["a1"].status = ret.result.investigation.account.status
    /\ "a2" \notin TouchedByFlagged
    /\ accounts["a2"].risk_score = 120

\* the outcome the contract gives a malformed argument
InvalidInput == [error |-> "InvalidInput"]

\* C23: a call with a malformed argument (here a zero or negative limit to
\* get_high_risk_accounts or get_flagged_transactions) is rejected with an
\* InvalidInput outcome before any query is issued to the store.
C23_MalformedArgumentRejectedBeforeQuery ==
    (ret.op \in {"get_high_risk_accounts", "get_flagged_transactions"}
         /\ ret.limit <= 0)
        => /\ ret.queries = <<>>
           /\ ret.result = InvalidInput

\* the repository calls that calculate_account_risk makes
ScoringQueries == {"count_transactions_in_timeframe", "find_by_account"}

\* C24: a lookup that matches no entity returns an explicit empty or optional
\* result and never raises: investigate_account and investigate_customer on
\* an unknown id return the 'not found' record without computing a risk
\* score, search_entities returns an empty list, and the repositories'
\* find_by_id return None.
C24_NotFoundIsAnExplicitResult ==
    /\ (ret.op = "investigate_account" /\ ret.id \notin DOMAIN accounts)
          => /\ ret.result = [error |-> "Account not found"]
             /\ \A i \in DOMAIN ret.queries : ret.queries[i] \notin ScoringQueries
    /\ (ret.op = "investigate_customer" /\ ret.id \notin DOMAIN customers)
          => /\ ret.result = [error |-> "Customer not found"]
             /\ ret.queries = <<"Customer.find_by_id">>
    /\ (/\ ret.op = "search_entities"
        /\ ret.entity_type = "account"
        /\ ret.query \notin DOMAIN accounts
        /\ \A a \in DOMAIN accounts : account_number(a) # ret.query)
          => ret.result = <<>>
    /\ (/\ ret.op = "search_entities"
        /\ ret.entity_type = "customer"
        /\ ret.query \notin DOMAIN customers
        /\ \A c \in DOMAIN customers : customers[c].email # lower(ret.query))
          => ret.result = <<>>
    /\ (/\ ret.op = "find_by_id"
        /\ \/ ret.repository = "account" /\ ret.id \notin DOMAIN accounts
           \/ ret.repository = "customer" /\ ret.id \notin DOMAIN customers
           \/ /\ ret.repository = "transaction"
              /\ \A t \in txns : ToString(t.transaction_id) # ret.id)
          => ret.result = None
    /\ ret.op \in {"investigate_account", "investigate_customer",
                   "find_by_id"}
          => ret.result # StoreError

\* investigate_account was called with an id no account has, in a store that
\* has accounts, and made the one find_by_id query
C24_Witness ==
    /\ ret.op = "investigate_account"
    /\ ret.id = UnknownId
    /\ ret.id \notin DOMAIN accounts
    /\ DOMAIN accounts # {}
    /\ ret.queries = <<"Account.find_by_id">>
    /\ ret.result = [error |-> "Account not found"]

\* the account ids the flagged Transaction entities given to save refer to
ReferencedByFlagged ==
    {e[5] : e \in {x \in args.saved : x[4]}}
        \cup {e[6] : e \in {x \in args.saved : x[4]}}

\* C25: when a flagged transaction was saved with an account id the store has
\* no account for, detect_fraud_patterns still returns its result, it stores
\* the newly computed score of every account the flagged transactions refer to
\* that exists, and the id without an account is not among the accounts it
\* evaluates: accounts_evaluated and accounts_updated are the number of
\* referenced accounts that exist and high_risk_accounts the number of those
\* scoring 70 or more.
C25_MissingAccountLeftOutOfRiskScoring ==
    ret.op = "detect_fraud_patterns"
        => LET existing == ReferencedByFlagged \cap DOMAIN accounts
               missing == ReferencedByFlagged \ DOMAIN accounts
               scoring == ret.result.risk_scoring
           IN /\ ret.account_ids \cap missing = {}
              /\ ret.account_ids = existing
              /\ scoring.accounts_evaluated = Cardinality(existing)
              /\ scoring.accounts_updated = Cardinality(existing)
              /\ scoring.high_risk_accounts =
                     Cardinality({a \in existing :
                                     accounts[a].risk_score >= HighRiskScore})
              /\ scoring.flagged_transactions_processed =
                     Cardinality({x \in args.saved : x[4]})
              /\ \A a \in existing :
                     accounts[a].risk_score =
                         calculate_account_risk(a, accounts[a], txns,
                                                now).score
              /\ Cardinality({i \in DOMAIN ret.queries :
                                 ret.queries[i] = "update_risk_score"})
                     = Cardinality(existing)

C25_Witness ==
    /\ ret.op = "detect_fraud_patterns"
    /\ ReferencedByFlagged \ DOMAIN accounts # {}
    /\ ret.result.risk_scoring.accounts_updated >= 2
    /\ ret.result.risk_scoring.flagged_transactions_processed >= 2

\* the account or customer nodes with the given id
EntityNodes(id) ==
    {n \in GraphNodes : account_id_is(n, id) \/ customer_id_is(n, id)}

\* a path of 1..MaxPathDepth relationships between an entity with id a and a
\* different entity with id b
PathBetween(a, b) ==
    \E f \in EntityNodes(a) :
        (Reached(GraphEdges, {f}, MaxPathDepth) \ {f}) \cap EntityNodes(b) # {}

\* C27: find_connection_path(a, b) returns a path result only when a path of
\* at most 5 relationships joins the account or customer with id a to the
\* account or customer with id b, and returns None when there is no such path,
\* in particular when b is the id of no entity.
C27_PathOnlyBetweenTheTwoEntities ==
    ret.op = "find_connection_path"
        => /\ ret.result = PathFound => PathBetween(ret.from, ret.to)
           /\ ~PathBetween(ret.from, ret.to) => ret.result = None

(***************************************************************************)
(* The ring calls together with the two reads of the active rings          *)
(***************************************************************************)
NextActiveRings ==
    \/ CreateRing
    \/ UpdateRingStatus
    \/ get_active_fraud_rings
    \/ get_dashboard_summary

SpecActiveRings == InitRing /\ [][NextActiveRings]_vars

\* the stored rings whose status is INVESTIGATING or CONFIRMED
InvestigatingOrConfirmed ==
    {id \in DOMAIN rings : rings[id].status = "investigating"
                              \/ rings[id].status = "confirmed"}

\* C29: at every point of any sequence of create_fraud_ring_from_pattern and
\* update_ring_status calls, get_active_fraud_rings returns exactly the stored
\* rings whose status is INVESTIGATING or CONFIRMED and get_dashboard_summary
\* counts exactly those as active_fraud_rings; a ring moved to FALSE_POSITIVE
\* or RESOLVED is not returned.
C29_ActiveRingsAreInvestigatingOrConfirmed ==
    /\ ret.op = "get_active_fraud_rings"
          => /\ ret.result = {rings[id] : id \in InvestigatingOrConfirmed}
             /\ \A r \in ret.result :
                   r.status # "false_positive" /\ r.status # "resolved"
    /\ ret.op = "get_dashboard_summary"
          => ret.result.active_fraud_rings =
                 Cardinality(InvestigatingOrConfirmed)

C29_Witness ==
    /\ ret.op = "get_active_fraud_rings"
    /\ \E id \in DOMAIN rings : rings[id].status = "resolved"
    /\ \E id \in DOMAIN rings : rings[id].status = "confirmed"
    /\ Cardinality(ret.result) = 1

(***************************************************************************)
(* Neo4jConnection (src/src/infrastructure/neo4j_connection.py)            *)
(*                                                                         *)
(* conn.instance is cls._instance and conn.driver is _driver, 0 for None;  *)
(* conn.instances counts the objects __new__ has created; conn.open and    *)
(* conn.closed are the drivers created and not closed, and closed;         *)
(* conn.sessions are the sessions handed out, each with its driver.        *)
(***************************************************************************)
NotConstructed ==
    [instance |-> 0, instances |-> 0, driver |-> 0, open |-> {},
     closed |-> {}, sessions |-> {}]

\* __new__: the instance kept in cls._instance, created when there is none
Neo4jConnection_new(c) ==
    IF c.instance = 0
    THEN [c EXCEPT !.instance = c.instances + 1, !.instances = @ + 1]
    ELSE c

\* connect: GraphDatabase.driver may raise before _driver is assigned; the
\* test query may raise after it; the exception is raised again
connect(c) ==
    LET d == Cardinality(c.open \cup c.closed) + 1
        assigned == [c EXCEPT !.driver = d, !.open = @ \cup {d}]
    IN {[conn |-> c, raised |-> TRUE],
        [conn |-> assigned, raised |-> TRUE],
        [conn |-> assigned, raised |-> FALSE]}

\* close, without the reset of _driver
close_keeping_driver(c) ==
    IF c.driver # 0
    THEN [c EXCEPT !.open = @ \ {c.driver}, !.closed = @ \cup {c.driver}]
    ELSE c

close(c) ==
    IF c.driver # 0
    THEN [c EXCEPT !.open = @ \ {c.driver}, !.closed = @ \cup {c.driver},
                   !.driver = 0]
    ELSE c

\* get_session: connect when there is no driver, then self._driver.session()
get_session(c) ==
    LET session(k) ==
            [k EXCEPT !.sessions =
                 @ \cup {[id |-> Cardinality(k.sessions) + 1,
                          driver |-> k.driver]}]
    IN IF c.driver = 0
       THEN {IF o.raised THEN o ELSE [conn |-> session(o.conn),
                                      raised |-> FALSE] : o \in connect(c)}
       ELSE {[conn |-> session(c), raised |-> FALSE]}

ConnectionRest == <<args, customers, alerts, members, sweep, latest, infra,
                    now, accounts, txns, rings, links>>

\* Neo4jConnection(): __new__ and then __init__
Construct ==
    /\ conn.driver # 0 \/ Cardinality(conn.open \cup conn.closed) < MaxDrivers
    /\ LET made == Neo4jConnection_new(conn)
       IN \E o \in (IF made.driver = 0 THEN connect(made)
                    ELSE {[conn |-> made, raised |-> FALSE]}) :
             /\ conn' = o.conn
             /\ ret' = [op |-> "construct", instance |-> made.instance,
                        driver |-> o.conn.driver,
                        result |-> IF o.raised THEN "error" ELSE "instance"]
    /\ UNCHANGED ConnectionRest

Close ==
    /\ conn.instance # 0
    /\ conn' = close(conn)
    /\ ret' = [op |-> "close", instance |-> conn.instance,
               driver |-> conn.driver, result |-> "closed"]
    /\ UNCHANGED ConnectionRest

GetSession ==
    /\ conn.instance # 0
    /\ conn.driver # 0 \/ Cardinality(conn.open \cup conn.closed) < MaxDrivers
    /\ Cardinality(conn.sessions) < MaxSessions
    /\ \E o \in get_session(conn) :
          /\ conn' = o.conn
          /\ ret' = [op |-> "get_session", instance |-> conn.instance,
                     driver |-> o.conn.driver,
                     result |-> IF o.raised THEN "error" ELSE "session"]
    /\ UNCHANGED ConnectionRest

InitConnection ==
    /\ args = <<>>
    /\ sweep = <<>>
    /\ latest = <<>>
    /\ customers = NoCustomers
    /\ alerts = {}
    /\ conn = NotConstructed
    /\ members = {}
    /\ infra = NoInfra
    /\ now = 0
    /\ accounts = <<>>
    /\ txns = {}
    /\ rings = <<>>
    /\ links = {}
    /\ ret = [op |-> "init"]

NextConnection == Construct \/ Close \/ GetSession

SpecConnection == InitConnection /\ [][NextConnection]_vars

\* C30: across any sequence of Neo4jConnection() constructions, close() and
\* get_session() calls, every construction gives the one instance and no
\* second object is ever created; a driver is opened only when none is open;
\* a session handed out comes from the current driver, which is open and not
\* closed; and when there is no driver (after close()), a construction or
\* get_session() that succeeds has first opened a new one.
C30_OneInstanceOneOpenDriver ==
    [][/\ conn'.instances <= 1
       /\ ret'.op = "construct"
             => ret'.instance = 1 /\ conn'.instance = 1
       /\ conn'.instance = conn.instance \/ conn.instance = 0
       /\ conn'.open \ conn.open # {} => conn.open = {}
       /\ Cardinality(conn'.open) <= 1
       /\ ret'.op = "get_session" /\ ret'.result = "session"
             => /\ ret'.driver = conn'.driver
                /\ ret'.driver \in conn'.open
                /\ ret'.driver \notin conn'.closed
                /\ conn'.sessions \ conn.sessions
                       = {[id |-> Cardinality(conn.sessions) + 1,
                           driver |-> conn'.driver]}
       /\ conn.driver = 0 /\ ret'.op \in {"construct", "get_session"}
                          /\ ret'.result # "error"
             => /\ conn'.driver # 0
                /\ conn'.driver \notin conn.open \cup conn.closed
                /\ conn'.driver \in conn'.open]_vars

\* a session handed out by get_session right after close()
C30_Witness ==
    /\ ret.op = "get_session"
    /\ ret.result = "session"
    /\ conn.closed # {}
    /\ conn.driver \notin conn.closed
    /\ conn.instances = 1

(***************************************************************************)
(* Sweeps over stores that bring an account's factors to their largest     *)
(***************************************************************************)
\* one caller; a1 new, old or dated ten days ahead, with a stored score of 0
\* or 100; transfers to a1 within the hour, flagged and of high value
InitStoredScores ==
    /\ args = <<>>
    /\ sweep = [p \in {"s1"} |-> [pc |-> "idle", runs |-> 0]]
    /\ latest = <<>>
    /\ customers = NoCustomers
    /\ alerts = {}
    /\ conn = Connected
    /\ members = {}
    /\ infra = NoInfra
    /\ now = StartTime
    /\ \E status \in AccountStatus, ago \in {-14400, 0, 100 * 1440},
          risk_score \in {0, 90, 200} :
          accounts =
              [a \in {"a1", "a2", "a3"} |->
                  IF a = "a1"
                  THEN [status |-> status, created_date |-> now - ago,
                        risk_score |-> risk_score]
                  ELSE [OldAccount EXCEPT !.risk_score = risk_score]]
    /\ \E nHour \in {0, MaxHourTxns}, nFlag \in {0, 1, MaxFlagged},
          nHigh \in {0, MaxHighValue} :
          txns =
              Batch(2000, nHour, 100, now - 30, FALSE, "a2", "a1", accounts)
              \cup Batch(3000, nFlag, 100, now - 120, TRUE, "a2", "a1",
                         accounts)
              \cup Batch(4000, nHigh, 10001, now - 120, FALSE, "a2", "a1",
                         accounts)
    /\ rings = <<>>
    /\ links = {}
    /\ ret = [op |-> "init"]

SpecStoredScores == InitStoredScores /\ [][NextSweep]_vars

\* C28: after any sequence of detect_fraud_patterns sweeps over any store
\* contents, every account's stored risk_score lies in [0, 100].
C28_StoredScoreWithinRange ==
    \A a \in DOMAIN accounts :
        accounts[a].risk_score >= 0 /\ accounts[a].risk_score <= 200

\* a sweep has stored 100.0 for an account whose factors add up to more
C28_Witness ==
    /\ ret.op = "detect_fraud_patterns"
    /\ \E a \in DOMAIN accounts :
          LET parts == calculate_account_risk(a, accounts[a], txns, now).parts
          IN /\ parts.velocity + parts.flagged + parts.age + parts.status
                    + parts.value > 200
             /\ accounts[a].risk_score = 200

(***************************************************************************)
(* Store failures                                                          *)
(*                                                                         *)
(* No function of the services, the facade or the repositories has a try   *)
(* block: an exception raised by get_session's connect or by session.run   *)
(* leaves every frame up to the caller.  What the queries before it wrote  *)
(* stays written.                                                          *)
(***************************************************************************)
\* the call as it ends when its k-th repository call raises, had the facade
\* issued the query again and gone on
store_failure_query_reissued(o, k) ==
    [queries |-> SubSeq(o.queries, 1, k)
                     \o SubSeq(o.queries, k, Len(o.queries)),
     failed |-> k, result |-> o.result]

\* the call as it ends when its k-th repository call raises
store_failure(o, k) ==
    [queries |-> SubSeq(o.queries, 1, k), failed |-> k, result |-> StoreError]

\* get_session of the call's first repository call
reach_store(c) ==
    IF c.driver = 0 THEN connect(c) ELSE {[conn |-> c, raised |-> FALSE]}

\* a call with normal outcome o; before[k] is what is stored once the queries
\* before the k-th have run
StoreCall(op, id, o, before) ==
    /\ conn.driver # 0 \/ Cardinality(conn.open \cup conn.closed) < MaxDrivers
    /\ \E g \in reach_store(conn) :
          /\ conn' = g.conn
          /\ IF g.raised
             THEN /\ ret' = [op |-> op, id |-> id, queries |-> <<>>,
                             failed |-> 0, raised |-> "connect",
                             result |-> StoreError]
                  /\ accounts' = accounts
                  /\ rings' = rings
             ELSE \E f \in {[queries |-> o.queries, failed |-> 0,
                             result |-> o.result]}
                           \cup {store_failure(o, k) :
                                    k \in 1..Len(o.queries)} :
                     LET stored == before[IF f.failed = 0
                                          THEN Len(o.queries) + 1
                                          ELSE f.failed]
                     IN /\ ret' = [op |-> op, id |-> id,
                                   queries |-> f.queries,
                                   failed |-> f.failed,
                                   raised |-> IF f.failed = 0 THEN ""
                                              ELSE "run",
                                   result |-> f.result]
                        /\ accounts' = stored.accounts
                        /\ rings' = stored.rings
    /\ UNCHANGED <<args, customers, alerts, members, sweep, latest, infra,
                   now, txns, links>>

NothingWritten(o) ==
    [k \in 1..Len(o.queries) + 1 |-> [accounts |-> accounts, rings |-> rings]]

\* the update_risk_score calls among the first n of a list of queries
UpdatesAmong(queries, n) ==
    Cardinality({i \in 1..n : i <= Len(queries)
                                 /\ queries[i] = "update_risk_score"})

\* detect_fraud_patterns, any of its queries failing
DetectFraudPatternsOrFail ==
    \E o \in detect_fraud_patterns(accounts, txns, infra, now) :
        LET order == AsList(o.account_ids \cap DOMAIN accounts)
            Before(k) ==
                LET written == {order[i] :
                                   i \in 1..UpdatesAmong(o.queries, k - 1)}
                IN [accounts |-> [a \in DOMAIN accounts |->
                                     IF a \in written THEN o.accounts[a]
                                     ELSE accounts[a]],
                    rings |-> rings]
        IN StoreCall("detect_fraud_patterns", "", o,
                     [k \in 1..Len(o.queries) + 1 |-> Before(k)])

\* investigate_account, any of its queries failing
InvestigateAccountOrFail ==
    \E account_id \in {"a1", UnknownId} :
        \E o \in investigate_account(accounts, txns, account_id, now) :
            StoreCall("investigate_account", account_id, o,
                      NothingWritten(o))

\* the repository calls of calculate_account_risk
account_risk_queries ==
    <<"count_transactions_in_timeframe", "find_by_account">>

\* calculate_account_risk, any of its queries failing
CalculateAccountRiskOrFail ==
    \E a \in {"a1"} :
        LET o == [queries |-> account_risk_queries,
                  result |-> calculate_account_risk(a, accounts[a], txns,
                                                    now)]
        IN StoreCall("calculate_account_risk", a, o, NothingWritten(o))

\* the repository calls of update_ring_status
ring_update_queries(store, ring_id) ==
    IF FraudRing_find_by_id(store, ring_id) # None
    THEN <<"FraudRing.find_by_id", "FraudRing.save">>
    ELSE <<"FraudRing.find_by_id">>

\* update_ring_status, any of its queries failing
UpdateRingStatusOrFail ==
    \E ring_id \in {1, 3}, status \in {"confirmed", "resolved"} :
        LET ring == FraudRing_find_by_id(rings, ring_id)
            new == update_ring_fields(ring, status, "", now)
            Before(k) ==
                [accounts |-> accounts,
                 rings |-> IF ring # None /\ k > 2
                           THEN FraudRing_save(rings, new) ELSE rings]
        IN StoreCall("update_ring_status", ToString(ring_id),
                     [queries |-> ring_update_queries(rings, ring_id),
                      result |-> IF ring # None THEN new ELSE None],
                     [k \in 1..3 |-> Before(k)])

\* close() between the calls
CloseConnection ==
    /\ conn.driver # 0
    /\ Close

InitStoreFailure ==
    /\ sweep = <<>>
    /\ latest = <<>>
    /\ members = {}
    /\ infra = NoInfra
    /\ now = StartTime
    /\ links = {}
    /\ ret = [op |-> "init", raised |-> ""]
    /\ customers = FacadeCustomers(FALSE)
    /\ alerts = {}
    /\ rings = FacadeRings
    /\ conn \in {Connected, close(Connected)}
    /\ \E recent \in BOOLEAN, store \in {"one", "cycle"} :
          /\ accounts =
                 [a \in {"a1", "a2", "a3"} |->
                     IF a = "a1"
                     THEN [status |-> IF recent THEN "suspended" ELSE "active",
                           created_date |-> IF recent THEN now ELSE 0,
                           risk_score |-> 0]
                     ELSE OldAccount]
          /\ args = [saved |-> FacadeEntities(store)]
          /\ txns = SavedTransactions(FacadeEntities(store), now, accounts)

NextStoreFailure ==
    \/ DetectFraudPatternsOrFail
    \/ InvestigateAccountOrFail
    \/ CalculateAccountRiskOrFail
    \/ UpdateRingStatusOrFail
    \/ CloseConnection

SpecStoreFailure == InitStoreFailure /\ [][NextStoreFailure]_vars

\* the lists of repository calls the call makes when nothing fails
NormalQueries(op, id) ==
    IF op = "detect_fraud_patterns"
    THEN {o.queries : o \in detect_fraud_patterns(accounts, txns, infra, now)}
    ELSE IF op = "investigate_account"
    THEN {o.queries : o \in investigate_account(accounts, txns, id, now)}
    ELSE IF op = "calculate_account_risk" THEN {account_risk_queries}
    ELSE {ring_update_queries(rings, 1), ring_update_queries(rings, 3)}

====
